---- MODULE Spec2Model ----
(***************************************************************************)
(* Model of the response transformer of Radiobox/web_responders            *)
(* (responders.go): CreateResponse and its helpers, the response key        *)
(* resolution of ResponseTag and the nullable unwrapping; of the message    *)
(* map that carries notifications; of the input checks of                   *)
(* RespondWithInputErrors; and of the envelope that Respond and the codec   *)
(* build around a response.                                                 *)
(*                                                                          *)
(* Go strings are sequences of one-character strings.  A Go value held in   *)
(* an interface{} is a record with a kind k and a type name t; a value of   *)
(* a type with methods carries caps, a function from the interfaces the     *)
(* type satisfies to what the method returns.  A reflect.Value taken from   *)
(* a container (Field, Index, MapIndex) is a slot: the static type st of    *)
(* the place and the value v held there; reflect reports Kind() Interface   *)
(* for a place whose static type is an interface type.                      *)
(* A panic is the result Panic, which every caller propagates.              *)
(***************************************************************************)
EXTENDS Integers, Sequences, FiniteSets, TLC

VARIABLES data, options, constructor, domain, pc, result, again,
          mm, calls, pending, printed, callers, req, outcome

transformVars == <<data, options, constructor, domain, result, again>>

(* The message map, the calls made on it, the log goroutines launched and   *)
(* not yet run, the lines printed, and where each goroutine that calls      *)
(* addMessage on the map stands                                             *)
ledgerVars == <<mm, calls, pending, printed, callers>>

(* The request handed to a responder and what the responder made of it *)
requestVars == <<req, outcome>>

vars == <<data, options, constructor, domain, pc, result, again,
          mm, calls, pending, printed, callers, req, outcome>>

----------------------------------------------------------------------------
(* Bounds of the model *)

MaxItems == 2

MaxFields == 3

(* Calls made on one message map *)
MaxCalls == 3

(* Calls made on the message map of a request before it is responded to *)
MaxNotes == 1

(* Calls made on a message map whose log goroutines are scheduled fairly *)
MaxLaunches == 2

(* Calls made on a message map that two goroutines share *)
MaxShared == 2

----------------------------------------------------------------------------
(* Strings *)

UpperChars == <<"A","B","C","D","E","F","G","H","I","J","K","L","M",
                "N","O","P","Q","R","S","T","U","V","W","X","Y","Z">>

LowerChars == <<"a","b","c","d","e","f","g","h","i","j","k","l","m",
                "n","o","p","q","r","s","t","u","v","w","x","y","z">>

IsUpper(c) == \E i \in 1..Len(UpperChars) : UpperChars[i] = c

ToLowerChar(c) ==
    IF IsUpper(c)
    THEN LowerChars[CHOOSE i \in 1..Len(UpperChars) : UpperChars[i] = c]
    ELSE c

ToLower(s) == [i \in 1..Len(s) |-> ToLowerChar(s[i])]

HasPrefix(s, prefix) ==
    /\ Len(s) >= Len(prefix)
    /\ SubSeq(s, 1, Len(prefix)) = prefix

SqlNullablePrefix == <<"N","u","l","l">>

S_empty == <<>>
S_dash == <<"-">>
S_star == <<"*">>
S_type == <<"t","y","p","e">>
S_full == <<"f","u","l","l">>
S_Valid == <<"V","a","l","i","d">>
S_response == <<"r","e","s","p","o","n","s","e">>
S_meta == <<"m","e","t","a">>
S_notifications == <<"n","o","t","i","f","i","c","a","t","i","o","n","s">>

(* Type names the code names or produces *)
T_iface == <<"i","n","t","e","r","f","a","c","e","{","}">>
T_string == <<"s","t","r","i","n","g">>
T_int == <<"i","n","t">>
T_bool == <<"b","o","o","l">>
T_objxMap == <<"o","b","j","x",".","M","a","p">>
T_ifaceSlice == <<"[","]">> \o T_iface
T_msi == <<"m","a","p","[","s","t","r","i","n","g","]">> \o T_iface

----------------------------------------------------------------------------
(* Values *)

Nil == [k |-> "nil"]

Panic == [k |-> "panic"]

NoCaps == [c \in {} |-> Nil]

StringVal(s) == [k |-> "string", t |-> T_string, s |-> s, caps |-> NoCaps]

IntVal(n) == [k |-> "int", t |-> T_int, n |-> n, caps |-> NoCaps]

BoolVal(b) == [k |-> "bool", t |-> T_bool, b |-> b, caps |-> NoCaps]

ObjxMap(m) == [k |-> "map", t |-> T_objxMap, kt |-> T_string, et |-> T_iface,
               m |-> m, caps |-> NoCaps]

IfaceSlice(items) == [k |-> "slice", t |-> T_ifaceSlice, et |-> T_iface,
                      items |-> items, caps |-> NoCaps]

Caps(v) == IF "caps" \in DOMAIN v THEN v.caps ELSE NoCaps

(* The type assertion data.(I) *)
HasCap(v, c) == c \in DOMAIN Caps(v)

IsPanic(v) == v.k = "panic"

R(v, log) == [v |-> v, log |-> log]

----------------------------------------------------------------------------
(* objx.Map options *)

NilOptions == [isnil |-> TRUE, ent |-> <<>>]

Options(ent) == [isnil |-> FALSE, ent |-> ent]

OptStr(s) == [k |-> "string", s |-> s]

OptMap(o) == [k |-> "msi", o |-> o]

OptNull == [k |-> "null"]

(* objx.Map.Get(key): the entry's data, nil when the key is absent *)
Get(o, key) == IF key \in DOMAIN o.ent THEN o.ent[key] ELSE OptNull

(* objx.Map.Has(key) = !Get(key).IsNil() *)
Has(o, key) == Get(o, key).k # "null"

(* objx.Value.Str(): the string held, "" for anything else *)
Str(val) == IF val.k = "string" THEN val.s ELSE S_empty

(* objx.Value.IsMSI() || IsObjxMap() *)
IsMSI(val) == val.k = "msi"

Event(c, v, o) == [c |-> c, t |-> v.t, o |-> o]

----------------------------------------------------------------------------
(* The constructor callback: nil, or a function wrapping the sequence it is *)
(* handed into a mapping that holds it under "response".                    *)

NilConstructor == [k |-> "nil"]

WrapConstructor == [k |-> "wrap"]

Msi(m) == [k |-> "map", t |-> T_msi, kt |-> T_string, et |-> T_iface, m |-> m,
           caps |-> NoCaps]

Constructor(ctor, object, original, log) ==
    IF ctor.k = "nil"
    THEN R(Panic, log)
    ELSE R(IF ctor.k = "wrap"
           THEN Msi(S_response :> object)
           ELSE Msi((S_meta :> ctor.meta) @@ (S_notifications :> ctor.notifications)
                        @@ (S_response :> object)),
           Append(log, Event("constructor", original, NilOptions)))

----------------------------------------------------------------------------
(* ResponseTag, responders.go *)

ResponseTag(field) ==
    IF field.resp # S_empty
    THEN field.resp
    ELSE IF field.name # <<"I","d">> /\ field.db # S_empty /\ field.db # S_dash
         THEN field.db
         ELSE ToLower(field.name)

(* ResponseTag, tag_finder.go *)

TagFinderResponseTag(field) ==
    IF field.resp # S_empty
    THEN field.resp
    ELSE IF field.db # S_empty /\ field.db # S_dash
         THEN field.db
         ELSE ToLower(field.name)

----------------------------------------------------------------------------
(* createNullableDbResponse: [found, v]; found is err == nil *)

FieldByName(value, name) ==
    IF \E i \in 1..Len(value.fields) : value.fields[i].name = name
    THEN CHOOSE i \in 1..Len(value.fields) : value.fields[i].name = name
    ELSE 0

createNullableDbResponse(value) ==
    LET typeName == value.t
        notFound == [found |-> FALSE, v |-> Nil]
    IN  IF HasPrefix(typeName, SqlNullablePrefix)
        THEN LET fieldName == SubSeq(typeName, Len(SqlNullablePrefix) + 1, Len(typeName))
                 val == FieldByName(value, fieldName)
                 isNotNil == FieldByName(value, S_Valid)
             IN  IF val # 0 /\ isNotNil # 0
                 THEN IF value.fields[isNotNil].v.k # "bool"
                      THEN [found |-> TRUE, v |-> Panic]
                      ELSE IF value.fields[isNotNil].v.b
                           THEN [found |-> TRUE, v |-> value.fields[val].v]
                           ELSE [found |-> TRUE, v |-> Nil]
                 ELSE notFound
        ELSE notFound

----------------------------------------------------------------------------
(* A lookup that would consult the wildcard before the key *)
StructSubOptions_wildcardFirst(opts, name) ==
    IF ~opts.isnil /\ (Has(opts, name) \/ Has(opts, S_star))
    THEN LET subOptionsValue == IF Has(opts, S_star) THEN Get(opts, S_star)
                                ELSE Get(opts, name)
         IN  IF IsMSI(subOptionsValue)
             THEN [panic |-> FALSE, o |-> subOptionsValue.o]
             ELSE [panic |-> TRUE, o |-> NilOptions]
    ELSE [panic |-> FALSE, o |-> NilOptions]

(* The sub-options of a struct field, createStructResponse lines 223-238:   *)
(* [panic, o]                                                               *)

StructSubOptions(opts, name) ==
    IF ~opts.isnil /\ (Has(opts, name) \/ Has(opts, S_star))
    THEN LET subOptionsValue == IF Has(opts, name) THEN Get(opts, name)
                                ELSE Get(opts, S_star)
         IN  IF IsMSI(subOptionsValue)
             THEN [panic |-> FALSE, o |-> subOptionsValue.o]
             ELSE [panic |-> TRUE, o |-> NilOptions]
    ELSE [panic |-> FALSE, o |-> NilOptions]

(* The element options of a map entry, createMapResponse lines 145-161:     *)
(* elementOptionsValue stays a nil *objx.Value when neither the key nor the *)
(* wildcard is present, and IsMSI dereferences it.                          *)

MapElementOptions(opts, keyStr) ==
    IF ~opts.isnil
    THEN IF Has(opts, keyStr) \/ Has(opts, S_star)
         THEN LET elementOptionsValue == IF Has(opts, keyStr) THEN Get(opts, keyStr)
                                         ELSE Get(opts, S_star)
              IN  IF IsMSI(elementOptionsValue)
                  THEN [panic |-> FALSE, o |-> elementOptionsValue.o]
                  ELSE [panic |-> TRUE, o |-> NilOptions]
         ELSE [panic |-> TRUE, o |-> NilOptions]
    ELSE [panic |-> FALSE, o |-> NilOptions]

(* reflect.Value.SetMapIndex(key, reflect.ValueOf(item)): the zero Value    *)
(* (item is the nil interface) deletes the key; a value that is not         *)
(* assignable to the map's element type panics.                             *)

Assignable(item, et) == et = T_iface \/ item.t = et

Put(m, key, v) == [x \in (DOMAIN m) \cup {key} |-> IF x = key THEN v ELSE m[x]]

EmptyMap == [x \in {} |-> Nil]

(* A merge that would let the embedded struct overwrite *)
MergeMissing_overwrite(response, embedded) ==
    [x \in (DOMAIN response) \cup (DOMAIN embedded) |->
        IF x \in DOMAIN embedded THEN embedded[x] ELSE response[x]]

(* for key, value := range embeddedResponse: keep what is already there *)
MergeMissing(response, embedded) ==
    [x \in (DOMAIN response) \cup (DOMAIN embedded) |->
        IF x \in DOMAIN response THEN response[x] ELSE embedded[x]]

(* An element rule that would ignore the "full" marker *)
UseCapabilities_always(opts) == TRUE

(* options.Get("type").Str() != "full", createResponseValue line 254 *)
UseCapabilities(opts) == Str(Get(opts, S_type)) # S_full

(* A rewriting that would prefix every string *)
PrependDomain_always(dom, str) == dom \o str

(* The string case of createResponse, lines 92-101 *)
PrependDomain(dom, str) ==
    IF str # S_empty /\ str[1] = "/" THEN dom \o str ELSE str

(* A sequence case that would hand the top-level sequence to the callback *)
WrapsSequence_topLevel(opts, isSubResponse) == ~isSubResponse

(* if options != nil && isSubResponse, createResponse line 86 *)
WrapsSequence(opts, isSubResponse) == ~opts.isnil /\ isSubResponse

(* A field loop that would skip nothing *)
IsSkipped_never(name) == FALSE

(* switch name { case "-": continue }, createStructResponse lines 219-221 *)
IsSkipped(name) == name = S_dash

(* Hooks that would ask for the substitute first and load that *)
Hooks_objectFirst(d, opts, log) ==
    LET responseData == IF HasCap(d, "ResponseObjectCreator")
                        THEN Caps(d)["ResponseObjectCreator"]
                        ELSE d
        log1 == IF HasCap(d, "ResponseObjectCreator")
                THEN Append(log, Event("ResponseObject", d, NilOptions))
                ELSE log
    IN  R(responseData,
          IF HasCap(responseData, "LazyLoader")
          THEN Append(log1, Event("LazyLoad", responseData, opts))
          ELSE log1)

(* The head of createResponse, lines 67-75: LazyLoad(options) on the value, *)
(* then ResponseObject() for the value that is walked                       *)
Hooks(d, opts, log) ==
    LET log1 == IF HasCap(d, "LazyLoader")
                THEN Append(log, Event("LazyLoad", d, opts))
                ELSE log
    IN  IF HasCap(d, "ResponseObjectCreator")
        THEN R(Caps(d)["ResponseObjectCreator"],
               Append(log1, Event("ResponseObject", d, NilOptions)))
        ELSE R(d, log1)

----------------------------------------------------------------------------
(* The transformer *)

RECURSIVE CreateResponse(_, _, _, _, _)
RECURSIVE createResponse(_, _, _, _, _, _)
RECURSIVE createStructResponse(_, _, _, _, _)
RECURSIVE structFields(_, _, _, _, _, _, _)
RECURSIVE createSliceResponse(_, _, _, _, _)
RECURSIVE sliceItems(_, _, _, _, _, _, _)
RECURSIVE createMapResponse(_, _, _, _, _)
RECURSIVE mapEntries(_, _, _, _, _, _, _)
RECURSIVE createResponseValue(_, _, _, _, _)

CreateResponse(d, opts, ctor, dom, log) ==
    IF HasCap(d, "error")
    THEN R(StringVal(Caps(d)["error"]), Append(log, Event("Error", d, NilOptions)))
    ELSE createResponse(d, FALSE, opts, ctor, dom, log)

createResponse(d, isSubResponse, opts, ctor, dom, log) ==
    LET hooked == Hooks(d, opts, log)
        responseData == hooked.v
        log2 == hooked.log
        value == IF responseData.k = "ptr" THEN responseData.e ELSE responseData
    IN  CASE value.k = "struct" ->
                createStructResponse(value, opts, ctor, dom, log2)
          [] value.k = "slice" ->
                LET r == createSliceResponse(value, opts, ctor, dom, log2)
                IN  IF IsPanic(r.v) THEN r
                    ELSE IF WrapsSequence(opts, isSubResponse)
                         THEN Constructor(ctor, r.v, value, r.log)
                         ELSE r
          [] value.k = "map" ->
                createMapResponse(value, opts, ctor, dom, log2)
          [] value.k = "string" ->
                IF dom # S_empty
                THEN LET str == value.s
                     IN  R(StringVal(PrependDomain(dom, str)), log2)
                ELSE R(responseData, log2)
          [] OTHER -> R(responseData, log2)

(* range value.MapKeys(): Go leaves the order of the keys unspecified; the   *)
(* response built does not depend on it.                                    *)
createMapResponse(value, opts, ctor, dom, log) ==
    mapEntries(value, DOMAIN value.m, EmptyMap, opts, ctor, dom, log)

mapEntries(value, keys, response, opts, ctor, dom, log) ==
    IF keys = {}
    THEN R([value EXCEPT !.m = response], log)
    ELSE LET key == CHOOSE x \in keys : TRUE
             eo == MapElementOptions(opts, key)
         IN  IF value.kt # T_string \/ eo.panic
             THEN R(Panic, log)
             ELSE LET r == createResponseValue([st |-> value.et, v |-> value.m[key]],
                                               eo.o, ctor, dom, log)
                  IN  IF IsPanic(r.v) THEN r
                      ELSE IF r.v.k = "nil"
                           THEN mapEntries(value, keys \ {key}, response,
                                           opts, ctor, dom, r.log)
                           ELSE IF ~Assignable(r.v, value.et)
                                THEN R(Panic, r.log)
                                ELSE mapEntries(value, keys \ {key},
                                                Put(response, key, r.v),
                                                opts, ctor, dom, r.log)

createSliceResponse(value, opts, ctor, dom, log) ==
    sliceItems(value, 1, <<>>, opts, ctor, dom, log)

sliceItems(value, i, response, opts, ctor, dom, log) ==
    IF i > Len(value.items)
    THEN R(IfaceSlice(response), log)
    ELSE LET r == createResponseValue([st |-> value.et, v |-> value.items[i]],
                                      opts, ctor, dom, log)
         IN  IF IsPanic(r.v) THEN r
             ELSE sliceItems(value, i + 1, Append(response, r.v),
                             opts, ctor, dom, r.log)

createStructResponse(value, opts, ctor, dom, log) ==
    LET n == createNullableDbResponse(value)
    IN  IF n.found
        THEN R(n.v, log)
        ELSE structFields(value, 1, EmptyMap, opts, ctor, dom, log)

structFields(value, i, response, opts, ctor, dom, log) ==
    IF i > Len(value.fields)
    THEN R(ObjxMap(response), log)
    ELSE LET fieldType == value.fields[i]
         IN  IF fieldType.anon
             THEN LET e == CreateResponse(fieldType.v, opts, ctor, dom, log)
                  IN  IF IsPanic(e.v) \/ e.v.k # "map" \/ e.v.t # T_objxMap
                      THEN R(Panic, e.log)
                      ELSE structFields(value, i + 1, MergeMissing(response, e.v.m),
                                        opts, ctor, dom, e.log)
             ELSE IF IsUpper(fieldType.name[1])
                  THEN LET name == ResponseTag(fieldType)
                           so == StructSubOptions(opts, name)
                       IN  IF IsSkipped(name)
                           THEN structFields(value, i + 1, response, opts, ctor, dom, log)
                           ELSE IF so.panic
                                THEN R(Panic, log)
                                ELSE LET r == createResponseValue(
                                                [st |-> fieldType.st, v |-> fieldType.v],
                                                so.o, ctor, dom, log)
                                     IN  IF IsPanic(r.v) THEN r
                                         ELSE structFields(value, i + 1,
                                                           Put(response, name, r.v),
                                                           opts, ctor, dom, r.log)
                  ELSE structFields(value, i + 1, response, opts, ctor, dom, log)

createResponseValue(slot, opts, ctor, dom, log) ==
    IF slot.st # T_iface /\ slot.v.k = "ptr" /\ slot.v.isnil
    THEN IF HasCap(slot.v, "NilResponder")
         THEN R(Caps(slot.v)["NilResponder"],
                Append(log, Event("NilResponseValue", slot.v, NilOptions)))
         ELSE R(Nil, log)
    ELSE IF UseCapabilities(opts)
         THEN LET source == slot.v
              IN  IF HasCap(source, "ResponseValueCreator")
                  THEN createResponse(Caps(source)["ResponseValueCreator"], TRUE,
                                      opts, ctor, dom,
                                      Append(log, Event("ResponseValue", source, opts)))
                  ELSE IF HasCap(source, "Stringer")
                       THEN createResponse(StringVal(Caps(source)["Stringer"]), TRUE,
                                           opts, ctor, dom,
                                           Append(log, Event("String", source, NilOptions)))
                       ELSE IF HasCap(source, "error")
                            THEN createResponse(StringVal(Caps(source)["error"]), TRUE,
                                                opts, ctor, dom,
                                                Append(log, Event("Error", source, NilOptions)))
                            ELSE createResponse(source, TRUE, opts, ctor, dom, log)
         ELSE createResponse(slot.v, TRUE, opts, ctor, dom, log)

----------------------------------------------------------------------------
(* The values handed to CreateResponse *)

Field(name, resp, db, anon, st, v) ==
    [name |-> name, resp |-> resp, db |-> db, anon |-> anon, st |-> st, v |-> v]

PlainField(name, v) == Field(name, S_empty, S_empty, FALSE, v.t, v)

Embedded(v) == Field(v.t, S_empty, S_empty, TRUE, v.t, v)

Struct(t, caps, fields) == [k |-> "struct", t |-> t, fields |-> fields, caps |-> caps]

Ptr(e, caps) == [k |-> "ptr", t |-> <<"*">> \o e.t, isnil |-> FALSE, e |-> e, caps |-> caps]

NilPtr(t, caps) == [k |-> "ptr", t |-> <<"*">> \o t, isnil |-> TRUE, e |-> Nil, caps |-> caps]

Slice(et, items) == [k |-> "slice", t |-> <<"[","]">> \o et, et |-> et,
                     items |-> items, caps |-> NoCaps]

Map(et, m) == [k |-> "map", t |-> <<"m","a","p","[","s","t","r","i","n","g","]">> \o et,
               kt |-> T_string, et |-> et, m |-> m, caps |-> NoCaps]

WithCaps(v, caps) == [v EXCEPT !.caps = caps]

S_a == <<"a">>
S_b == <<"b">>
S_slash_a == <<"/","a">>
S_Id == <<"I","d">>

Strings == {S_empty, S_a, S_slash_a}

Domains == {S_empty, <<"h">>}

Constructors == {NilConstructor, WrapConstructor}

(* What the methods of the modelled types return *)
CapResult(c) ==
    CASE c = "ResponseValueCreator" -> StringVal(<<"/","v">>)
      [] c = "NilResponder" -> StringVal(<<"/","n">>)
      [] c = "Stringer" -> <<"/","s">>
      [] c = "error" -> <<"/","e">>

CapsOf(S) == [c \in S |-> CapResult(c)]

ElementCaps == SUBSET {"ResponseValueCreator", "Stringer", "error", "NilResponder"}

ShapeCaps == {{}, {"Stringer"}, {"ResponseValueCreator", "Stringer"}}

T_T == <<"T">>

Inner == Struct(T_T, NoCaps, <<PlainField(<<"N">>, IntVal(1))>>)

Typed == Struct(<<"U">>, NoCaps,
                <<PlainField(<<"T","y","p","e">>, StringVal(S_a))>>)

PtrElements ==
    {Ptr(Inner, CapsOf(S)) : S \in ElementCaps} \cup {NilPtr(T_T, CapsOf(S)) : S \in ElementCaps}

Shapes == {Inner, Typed, Slice(T_int, <<IntVal(1)>>), Map(T_int, S_a :> IntVal(1)),
           IntVal(1), StringVal(S_slash_a)}

ShapeElements == {WithCaps(v, CapsOf(S)) : v \in Shapes, S \in ShapeCaps}

Slots(E) == {[st |-> st, v |-> v] : st \in {T_iface}, v \in E}
                \cup {[st |-> v.t, v |-> v] : v \in E}

(* One element as a struct field, as the items of a sequence, as a map value *)
Containers(slot) ==
    {Struct(<<"S">>, NoCaps, <<Field(<<"A">>, S_empty, S_empty, FALSE, slot.st, slot.v)>>),
     Map(slot.st, S_a :> slot.v)}
        \cup {Slice(slot.st, [i \in 1..n |-> slot.v]) : n \in 1..MaxItems}

ElementInputs(E) == UNION {Containers(slot) : slot \in Slots(E)}

(* Options trees: an entry for "a", a wildcard entry, a "type" leaf *)
O_empty == Options(<<>>)
O_full == Options(S_type :> OptStr(S_full))
O_other == Options(S_type :> OptStr(<<"x">>))

Entry(key, choices) == {<<>>} \cup {key :> c : c \in choices}

OptionTrees ==
    {NilOptions, Options(S_a :> OptStr(<<"x">>))}
        \cup {Options(a @@ w @@ t) :
                a \in Entry(S_a, {OptMap(O_full), OptMap(O_other), OptMap(O_empty)}),
                w \in Entry(S_star, {OptMap(O_full), OptMap(O_other)}),
                t \in Entry(S_type, {OptStr(S_full)})}

(* Struct fields under every combination of name and tags *)
S_Name == <<"N","a","m","e">>
S_r == <<"r">>
S_d == <<"d">>

FieldNames == {S_Id, S_Name, <<"x">>}
ResponseTags == {S_empty, S_dash, S_r}
DbTags == {S_empty, S_dash, S_d}

Summarized == Ptr(Inner, CapsOf({"ResponseValueCreator", "Stringer"}))

TagInputs ==
    {Struct(<<"S">>, NoCaps, <<Field(n, r, d, FALSE, v.t, v), PlainField(<<"B">>, IntVal(2))>>) :
        n \in FieldNames, r \in ResponseTags, d \in DbTags,
        v \in {StringVal(S_slash_a), Summarized}}

(* Structs with direct and embedded fields in every order *)
S_X == <<"X">>
S_x == <<"x">>

E == Struct(<<"E">>, NoCaps, <<PlainField(S_X, StringVal(<<"e">>)),
                               PlainField(<<"Y">>, IntVal(3))>>)
G == Struct(<<"G">>, NoCaps, <<PlainField(S_X, StringVal(<<"/","g">>))>>)
H == Struct(<<"H">>, NoCaps,
            <<Embedded(Struct(<<"K">>, NoCaps, <<PlainField(S_X, IntVal(4))>>)),
              PlainField(<<"Y">>, IntVal(9))>>)

EmbedFields ==
    {PlainField(S_X, StringVal(<<"/","d">>)),
     Field(<<"Z">>, S_x, S_empty, FALSE, T_int, IntVal(7)),
     Embedded(E), Embedded(G), Embedded(H),
     [Embedded(Ptr(E, NoCaps)) EXCEPT !.name = <<"E">>]}

DistinctNames(fields) ==
    \A i, j \in 1..Len(fields) : fields[i].name = fields[j].name => i = j

EmbedInputs ==
    {Struct(<<"S">>, NoCaps, fields) :
        fields \in {f \in UNION {[1..n -> EmbedFields] : n \in 1..MaxFields} :
                        DistinctNames(f)}}

(* Strings and scalars at the top level, in sequences and in maps *)
StringInputs ==
    {StringVal(str) : str \in Strings}
        \cup {Ptr(StringVal(str), NoCaps) : str \in Strings}
        \cup {IntVal(1), WithCaps(Inner, CapsOf({"error"})), WithCaps(Inner, CapsOf({"Stringer"}))}
        \cup {Slice(et, items) : et \in {T_string, T_iface},
                items \in UNION {[1..n -> {StringVal(str) : str \in Strings}] : n \in 0..MaxItems}}
        \cup {Map(et, (S_a :> StringVal(x)) @@ (S_b :> StringVal(y))) :
                et \in {T_string, T_iface}, x \in Strings, y \in Strings}
        \cup {Map(et, (S_a :> IntVal(1)) @@ (S_b :> IntVal(2))) : et \in {T_int, T_iface}}

(* Nullable wrappers, and structs that only look like one *)
NullString(str, valid) ==
    Struct(SqlNullablePrefix \o <<"S","t","r","i","n","g">>, NoCaps,
           <<PlainField(<<"S","t","r","i","n","g">>, StringVal(str)),
             PlainField(S_Valid, BoolVal(valid))>>)

NullInt(n, valid) ==
    Struct(SqlNullablePrefix \o <<"I","n","t">>, NoCaps,
           <<PlainField(<<"I","n","t">>, IntVal(n)), PlainField(S_Valid, BoolVal(valid))>>)

NullLike ==
    Struct(SqlNullablePrefix \o <<"X">>, NoCaps,
           <<PlainField(<<"Y">>, IntVal(1)), PlainField(S_Valid, BoolVal(FALSE))>>)

Nullables ==
    {NullString(str, b) : str \in {S_a, S_slash_a}, b \in BOOLEAN}
        \cup {NullInt(n, b) : n \in {0, 1}, b \in BOOLEAN}

NullInputs ==
    Nullables \cup {NullLike} \cup {Ptr(v, NoCaps) : v \in Nullables}
        \cup ElementInputs(Nullables \cup {NullLike})

(* Structs that embed what is not a struct value: a nil pointer, a nullable *)
(* wrapper, an error value, an integer type                                 *)
EmbeddedFaults ==
    {NilPtr(<<"E">>, NoCaps), NullString(S_a, TRUE), WithCaps(E, CapsOf({"error"})),
     IntVal(1)}

FaultInputs ==
    {Struct(<<"S">>, NoCaps, <<Embedded(v), PlainField(<<"Y">>, IntVal(9))>>) :
        v \in EmbeddedFaults}

(* Elements whose descendants offer capabilities: a field of a field, the   *)
(* item of a nested sequence, the value of a nested map, and map-valued     *)
(* descendants                                                              *)
Said == Ptr(Inner, CapsOf({"Stringer"}))

DeepElements ==
    {Struct(<<"D">>, NoCaps, <<PlainField(<<"F">>, Said)>>),
     Slice(T_iface, <<Said>>),
     Map(T_iface, S_b :> Said),
     Struct(<<"D">>, NoCaps, <<PlainField(<<"M">>, Map(T_int, S_b :> IntVal(1)))>>),
     Slice(T_iface, <<Map(T_int, S_b :> IntVal(1))>>)}

DeepInputs == ElementInputs(DeepElements)

(* Capabilities that answer with a struct *)
ResultElements ==
    {Ptr(Inner, "ResponseValueCreator" :> G), NilPtr(T_T, "NilResponder" :> G)}

ResultInputs == ElementInputs(ResultElements)

(* Values that offer LazyLoad, ResponseObject or both; the substitute is    *)
(* itself a LazyLoader                                                      *)
Substitute ==
    Struct(<<"R">>, "LazyLoader" :> Nil, <<PlainField(S_X, Said)>>)

Loaded == Struct(<<"L">>, NoCaps, <<PlainField(<<"F">>, Said)>>)

HookCaps ==
    {"LazyLoader" :> Nil, "ResponseObjectCreator" :> Substitute,
     ("LazyLoader" :> Nil) @@ ("ResponseObjectCreator" :> Substitute)}

HookElements == {WithCaps(Loaded, caps) : caps \in HookCaps}

HookInputs == HookElements \cup ElementInputs(HookElements)

(* Two elements that report the options they are handed *)
Va == Ptr(Inner, CapsOf({"ResponseValueCreator"}))
Vb == Ptr(Struct(<<"V">>, NoCaps, <<PlainField(<<"N">>, IntVal(2))>>),
          CapsOf({"ResponseValueCreator"}))

LookupInputs ==
    {Struct(<<"S">>, NoCaps, <<PlainField(<<"A">>, Va), PlainField(<<"B">>, Vb)>>),
     Map(T_iface, (S_a :> Va) @@ (S_b :> Vb))}

----------------------------------------------------------------------------
(* MessageMap: map[string]interface{} holding the buckets "err", "warn" and *)
(* "info" and the input messages under "input"                              *)

S_err == <<"e","r","r">>
S_warn == <<"w","a","r","n">>
S_info == <<"i","n","f","o">>
S_input == <<"i","n","p","u","t">>

Severities == {S_err, S_warn, S_info}

ToUpperChar(c) ==
    IF \E i \in 1..26 : LowerChars[i] = c
    THEN UpperChars[CHOOSE i \in 1..26 : LowerChars[i] = c]
    ELSE c

ToUpper(s) == [i \in 1..Len(s) |-> ToUpperChar(s[i])]

NewMessageMap ==
    (S_err :> <<>>) @@ (S_warn :> <<>>) @@ (S_info :> <<>>) @@ (S_input :> EmptyMap)

(* One message of a call: what the type switch of joinMessages adds for it *)
MessageText(message) ==
    IF HasCap(message, "Stringer") THEN Caps(message)["Stringer"]
    ELSE IF HasCap(message, "error") THEN Caps(message)["error"]
    ELSE IF message.k = "string" THEN message.s
    ELSE S_empty

RECURSIVE joinFrom(_, _, _)

joinFrom(messages, i, response) ==
    IF i > Len(messages)
    THEN response
    ELSE joinFrom(messages, i + 1,
                  (IF response # S_empty THEN response \o <<" ">> ELSE response)
                      \o MessageText(messages[i]))

joinMessages(messages) == joinFrom(messages, 1, S_empty)

(* A line whose prefix would keep the severity as it was given *)
logLine_asGiven(severity, messages) ==
    [prefix |-> severity \o <<":">>, messages |-> messages]

(* The line that mm.log hands to log.Print *)
logLine(severity, messages) ==
    [prefix |-> ToUpper(severity) \o <<":">>, messages |-> messages]

(* A bucket that would grow at its head *)
addMessage_prepend(m, severity, messages) ==
    [m EXCEPT ![severity] = <<joinMessages(messages)>> \o @]

(* mm[severity] = append(mm[severity].([]string), mm.joinMessages(...)) *)
addMessage(m, severity, messages) ==
    [m EXCEPT ![severity] = Append(@, joinMessages(messages))]

(* An input message that would keep the first text set for a field *)
setInputMessage_keepFirst(m, input, messages) ==
    [m EXCEPT ![S_input] = IF input \in DOMAIN @ THEN @
                           ELSE Put(@, input, joinMessages(messages))]

(* inputErrs[input] = mm.joinMessages(messages...) *)
setInputMessage(m, input, messages) ==
    [m EXCEPT ![S_input] = Put(@, input, joinMessages(messages))]

Errors(m) == m[S_err]

Warnings(m) == m[S_warn]

Infos(m) == m[S_info]

InputMessages(m) == m[S_input]

----------------------------------------------------------------------------
(* Respond (responders.go) and the codec that builds the envelope           *)
(* (codecs/codecs.go)                                                       *)

StatusOK == 200
StatusBadRequest == 400
StatusInternalServerError == 500

S_code == <<"c","o","d","e">>
S_input_params == <<"i","n","p","u","t","_","p","a","r","a","m","s">>
S_links == <<"l","i","n","k","s">>
S_location == <<"l","o","c","a","t","i","o","n">>
NoLocation == <<"E","r","r","o","r",":"," ","n","o"," ","l","o","c","a","t","i","o","n"," ","p","r","e","s","e","n","t">>
relStartPattern == <<"r","e","l","=","\"">>
relEndPattern == <<"\"">>

Host == <<"h">>

(* Go's s[n:] and s[:n] *)
From(str, n) == SubSeq(str, n + 1, Len(str))

Upto(str, n) == SubSeq(str, 1, n)

(* strings.Index: the offset of the first occurrence, -1 when there is none *)
Index(str, pattern) ==
    LET at == {i \in 0..(Len(str) - Len(pattern)) :
                  SubSeq(str, i + 1, i + Len(pattern)) = pattern}
    IN  IF at = {} THEN -1 ELSE CHOOSE i \in at : \A j \in at : i <= j

IndexRune(str, c) == Index(str, <<c>>)

RECURSIVE parseLinksFrom(_, _)

parseLinksFrom(link, relMap) ==
    LET uriStart == IndexRune(link, "<")
        link1 == From(link, uriStart + 1)
        uriEnd == IndexRune(link1, ">")
        uri == Upto(link1, uriEnd)
        link2 == From(link1, uriEnd)
        relStart == Index(link2, relStartPattern)
        link3 == From(link2, relStart + Len(relStartPattern))
        relEnd == Index(link3, relEndPattern)
        rel == Upto(link3, relEnd)
    IN  IF uriStart = -1 THEN relMap
        ELSE IF uriEnd = -1 THEN relMap
        ELSE IF relStart = -1 THEN relMap
        ELSE IF relEnd = -1 THEN relMap
        ELSE parseLinksFrom(From(link3, relEnd), Put(relMap, rel, uri))

parseLinks(linkHeader) == parseLinksFrom(linkHeader, EmptyMap)

(* http.Header.Get: "" for a header that was not set *)
HeaderGet(header, name) == IF name \in DOMAIN header THEN header[name] ELSE S_empty

(* fmt.Sprintf("%s://%s", protocol, host) *)
RequestDomain(tls) ==
    (IF tls THEN <<"h","t","t","p","s">> ELSE <<"h","t","t","p">>) \o <<":","/","/">> \o Host

RECURSIVE relatedLinks(_, _, _)

(* for rel, link := range linkMap: the links in some order, the header that *)
(* parseLinks reads being the same in every order of distinct relations     *)
relatedLinks(linkMap, rels, requestDomain) ==
    IF rels = {} THEN <<>>
    ELSE LET rel == CHOOSE x \in rels : TRUE
         IN  <<","," ","<">> \o requestDomain \o linkMap[rel] \o <<">",";"," ","r","e","l","=","\"">> \o rel \o <<"\"">>
                 \o relatedLinks(linkMap, rels \ {rel}, requestDomain)

(* The Location and Link headers that Respond sets *)
ResponseHeader(status, d, requestDomain) ==
    IF status = StatusOK
    THEN LET location == IF HasCap(d, "Locationer")
                         THEN requestDomain \o Caps(d)["Locationer"]
                         ELSE NoLocation
             linkMap == Caps(d)["RelatedLinker"]
         IN  ("Location" :> location)
                 @@ (IF HasCap(d, "RelatedLinker")
                     THEN "Link" :> (<<"<">> \o location \o <<">",";"," ","r","e","l","=","\"","l","o","c","a","t","i","o","n","\"">>
                                       \o relatedLinks(linkMap, DOMAIN linkMap, requestDomain))
                     ELSE EmptyMap)
    ELSE EmptyMap

T_stringSlice == <<"[","]","s","t","r","i","n","g">>
T_stringMap == <<"m","a","p","[","s","t","r","i","n","g","]","s","t","r","i","n","g">>
T_MessageMap == <<"M","e","s","s","a","g","e","M","a","p">>

(* []string and map[string]string as values *)
StringSlice(texts) ==
    [k |-> "slice", t |-> T_stringSlice, et |-> T_string,
     items |-> [i \in 1..Len(texts) |-> StringVal(texts[i])], caps |-> NoCaps]

StringMap(texts) ==
    [k |-> "map", t |-> T_stringMap, kt |-> T_string, et |-> T_string,
     m |-> [x \in DOMAIN texts |-> StringVal(texts[x])], caps |-> NoCaps]

(* The MessageMap as the value that is handed to the codec *)
MessageMapValue(m) ==
    [k |-> "map", t |-> T_MessageMap, kt |-> T_string, et |-> T_iface,
     m |-> [x \in DOMAIN m |-> IF x = S_input THEN StringMap(m[x]) ELSE StringSlice(m[x])],
     caps |-> NoCaps]

(* The parsed request body; the joins it carries are the options tree *)
Body(joins) == [k |-> "body", t |-> T_objxMap, joins |-> joins]

(* The codec options after options.MergeHere; the response header is the    *)
(* one of the response writer                                               *)
CodecOptions(status, body, notifications, requestDomain, header) ==
    [status |-> status, input_params |-> body, notifications |-> notifications,
     domain |-> requestDomain, response_header |-> header]

(* A meta section that would carry links and location for every status *)
Meta_anyStatus(codecOptions) ==
    LET linkHeader == HeaderGet(codecOptions.response_header, "Link")
        location == HeaderGet(codecOptions.response_header, "Location")
    IN  Msi((S_code :> IntVal(codecOptions.status))
                @@ (S_input_params :> codecOptions.input_params)
                @@ (S_links :> StringMap(parseLinks(linkHeader)))
                @@ (S_location :> StringVal(IF location = S_empty
                                            THEN NoLocation
                                            ELSE location)))

(* The meta section that the constructor builds *)
Meta(codecOptions) ==
    LET base == (S_code :> IntVal(codecOptions.status))
                    @@ (S_input_params :> codecOptions.input_params)
        linkHeader == HeaderGet(codecOptions.response_header, "Link")
        location == HeaderGet(codecOptions.response_header, "Location")
    IN  Msi(IF codecOptions.status = StatusOK
            THEN base @@ (S_links :> StringMap(parseLinks(linkHeader)))
                      @@ (S_location :> StringVal(IF location = S_empty
                                                  THEN NoLocation
                                                  ELSE location))
            ELSE base)

CreateConstructor(codecOptions) ==
    [k |-> "envelope", meta |-> Meta(codecOptions),
     notifications |-> codecOptions.notifications]

(* Marshal up to the base codec: the joins are the options tree, the        *)
(* response object is wrapped by the constructor                            *)
Marshal(object, codecOptions) ==
    LET joins == codecOptions.input_params.joins
        ctor == CreateConstructor(codecOptions)
        responseObject == CreateResponse(object, joins, ctor, codecOptions.domain, <<>>)
    IN  IF IsPanic(responseObject.v)
        THEN Panic
        ELSE Constructor(ctor, responseObject.v, object, responseObject.log).v

(* Respond, after the body was parsed: [status, header, options, response] *)
Respond(status, notifications, d, body, tls, useFullDomain) ==
    LET header == ResponseHeader(status, d, RequestDomain(tls))
        requestDomain == IF useFullDomain THEN RequestDomain(tls) ELSE S_empty
        codecOptions == CodecOptions(status, body, notifications, requestDomain, header)
    IN  [k |-> "responded", status |-> status, header |-> header,
         domain |-> requestDomain, response |-> Marshal(d, codecOptions)]

----------------------------------------------------------------------------
(* The codec's content types and its choice of the base codec               *)
(* (codecs/codecs.go)                                                       *)

typeCategory == <<"a","p","p","l","i","c","a","t","i","o","n">>
typeName == <<"v","n","d",".","r","a","d","i","o","b","o","x",".","e","n","c","a","p","s","u","l","a","t","e","d">>
BasicMimeType == typeCategory \o <<"/">> \o typeName
defaultMimeType == BasicMimeType \o <<"+","j","s","o","n">>
defaultBaseType == <<"a","p","p","l","i","c","a","t","i","o","n","/","j","s","o","n">>

ContentType == defaultMimeType

(* contentType[:index] for the first '+', then the comparison *)
ContentTypeSupported(contentType) ==
    LET index == IndexRune(contentType, "+")
        stripped == IF index # -1 THEN Upto(contentType, index) ELSE contentType
    IN  stripped = ContentType

(* s[n:], which panics when n is beyond the end of s *)
SliceFrom(str, n) == IF n > Len(str) THEN Panic ELSE [k |-> "string", s |-> From(str, n)]

NoMatchedType == [present |-> FALSE]

MatchedType(t) == [present |-> TRUE, s |-> t]

(* The base type Marshal asks the codec service for *)
BaseType(matched) ==
    IF matched.present /\ IndexRune(matched.s, "+") # -1
    THEN LET format == SliceFrom(matched.s, Len(ContentType) + 1)
         IN  IF IsPanic(format)
             THEN Panic
             ELSE [k |-> "string", s |-> typeCategory \o <<"/">> \o format.s]
    ELSE [k |-> "string", s |-> defaultBaseType]

(* The codecs that the codec service holds besides this one *)
InstalledCodecs == {<<"a","p","p","l","i","c","a","t","i","o","n","/","j","s","o","n">>, <<"a","p","p","l","i","c","a","t","i","o","n","/","x","m","l">>}

(* Marshal with its choice of the base codec: the envelope handed to the    *)
(* base codec, the error of the codec service, or a panic                   *)
MarshalWith(object, codecOptions, matched) ==
    LET response == Marshal(object, codecOptions)
        baseType == BaseType(matched)
    IN  IF IsPanic(response) \/ IsPanic(baseType)
        THEN Panic
        ELSE IF baseType.s \in InstalledCodecs
        THEN [k |-> "encoded", codec |-> baseType.s, response |-> response]
        ELSE [k |-> "error", codec |-> baseType.s]

----------------------------------------------------------------------------
(* Input validation: checkForInputError, addInputErrors and                 *)
(* RespondWithInputErrors (responders.go)                                   *)

NoTargetField == <<"N","o"," ","t","a","r","g","e","t"," ","f","i","e","l","d"," ","f","o","u","n","d"," ","f","o","r"," ","t","h","i","s"," ","i","n","p","u","t">>
NoInputForRequired == <<"N","o"," ","i","n","p","u","t"," ","f","o","r"," ","r","e","q","u","i","r","e","d"," ","f","i","e","l","d">>
WrongType == <<"I","n","p","u","t"," ","i","s"," ","o","f"," ","t","h","e"," ","w","r","o","n","g"," ","t","y","p","e"," ","a","n","d"," ","c","a","n","n","o","t"," ","b","e"," ","c","o","n","v","e","r","t","e","d">>
Rejected == <<"r","e","j","e","c","t","e","d">>

(* Submitted values, by their dynamic type; the null of the request is the  *)
(* nil interface                                                            *)
ParamString == [t |-> "string"]
ParamNumber == [t |-> "float64"]
ParamNil == [t |-> "nil"]

(* Field types.  A validator or receiver type decides by its own code, here *)
(* by the set of dynamic types it accepts.                                  *)
IntType == [k |-> "int", name |-> T_int]
StringType == [k |-> "string", name |-> T_string]
ValidatorType(accepts) == [k |-> "struct", name |-> <<"C","h","e","c","k","e","d">>, validator |-> accepts]
ReceiverType(accepts) == [k |-> "struct", name |-> <<"R","e","c","e","i","v","e","d">>, receiver |-> accepts]
NullType(name, inner) == [k |-> "struct", name |-> SqlNullablePrefix \o name,
                          nullField |-> inner]
StructType(name, fields) == [k |-> "struct", name |-> name, fields |-> fields]
PtrType(elem) == [k |-> "ptr", name |-> S_empty, elem |-> elem]

InputField(name, input, optional, type) ==
    [name |-> name, anonymous |-> FALSE, input |-> input, optional |-> optional,
     type |-> type]

EmbeddedType(type) ==
    [name |-> type.name, anonymous |-> TRUE, input |-> S_empty, optional |-> FALSE,
     type |-> type]

(* reflect.Type.ConvertibleTo between the dynamic types of JSON values and  *)
(* the field types of the model                                             *)
ConvertibleTo(valueType, fieldType) ==
    \/ valueType = "string" /\ fieldType.k = "string"
    \/ valueType = "float64" /\ fieldType.k = "int"

NoError == [k |-> "nil"]

ErrorText(text) == [k |-> "error", text |-> text]

(* checkForInputError: nil, an error, or a panic where the nil interface    *)
(* has no type to ask (reflect.TypeOf(nil).ConvertibleTo)                   *)
checkForInputError(fieldType, value) ==
    LET base == IF fieldType.k = "ptr" THEN fieldType.elem ELSE fieldType
        nullable == /\ fieldType.k = "struct"
                    /\ HasPrefix(fieldType.name, SqlNullablePrefix)
                    /\ "nullField" \in DOMAIN fieldType
        target == IF nullable THEN fieldType.nullField ELSE fieldType
    IN  IF "validator" \in DOMAIN base
        THEN IF value.t \in base.validator THEN NoError ELSE ErrorText(Rejected)
        ELSE IF "receiver" \in DOMAIN base
        THEN IF value.t \in base.receiver THEN NoError ELSE ErrorText(Rejected)
        ELSE IF nullable /\ value = ParamNil THEN NoError
        ELSE IF value = ParamNil THEN Panic
        ELSE IF ~ConvertibleTo(value.t, target) THEN ErrorText(WrongType)
        ELSE NoError

Remove(m, key) == [x \in (DOMAIN m) \ {key} |-> m[x]]

(* unicode.IsUpper(rune(field.Name[0])) *)
IsExported(field) == IsUpper(field.name[1])

(* if !optional && checkMissing, for a field whose name is not in params *)
IsMissing(field, checkMissing) ==
    ~field.optional /\ checkMissing

RECURSIVE addInputErrorsFrom(_, _, _, _)

(* The walk from field i on; st holds the params still unclaimed, the       *)
(* message map and whether the walk has panicked                            *)
addInputErrorsFrom(dataType, i, st, checkMissing) ==
    IF st.panic THEN st
    ELSE IF "fields" \notin DOMAIN dataType THEN [st EXCEPT !.panic = TRUE]
    ELSE IF i > Len(dataType.fields) THEN st
    ELSE LET field == dataType.fields[i]
             name == field.input
             stepped ==
                 IF field.anonymous
                 THEN addInputErrorsFrom(field.type, 1, st, checkMissing)
                 ELSE IF ~IsExported(field) THEN st
                 ELSE IF name = S_dash THEN st
                 ELSE IF name \notin DOMAIN st.params
                 THEN IF IsMissing(field, checkMissing)
                      THEN [st EXCEPT !.m = setInputMessage(@, name,
                                                <<StringVal(NoInputForRequired)>>)]
                      ELSE st
                 ELSE LET err == checkForInputError(field.type, st.params[name])
                          claimed == [st EXCEPT !.params = Remove(@, name)]
                      IN  IF IsPanic(err) THEN [claimed EXCEPT !.panic = TRUE]
                          ELSE IF err.k = "error"
                          THEN [claimed EXCEPT !.m = setInputMessage(@, name,
                                                        <<StringVal(err.text)>>)]
                          ELSE claimed
         IN  addInputErrorsFrom(dataType, i + 1, stepped, checkMissing)

addInputErrors(dataType, params, notifications, checkMissing) ==
    addInputErrorsFrom(dataType, 1,
                       [params |-> params, m |-> notifications, panic |-> FALSE],
                       checkMissing)

RECURSIVE leftover(_, _)

(* for key := range params: the parameters that no field claimed *)
leftover(m, params) ==
    IF DOMAIN params = {} THEN m
    ELSE LET key == CHOOSE x \in DOMAIN params : TRUE
         IN  leftover(setInputMessage(m, key, <<StringVal(NoTargetField)>>),
                      Remove(params, key))

(* A status choice that would look at the err bucket as well *)
inputStatus_anyMessage(m) ==
    IF DOMAIN InputMessages(m) = {} /\ Errors(m) = <<>>
    THEN StatusInternalServerError
    ELSE StatusBadRequest

(* status := http.StatusBadRequest; if len(InputMessages()) == 0 { 500 } *)
inputStatus(m) ==
    IF DOMAIN InputMessages(m) = {}
    THEN StatusInternalServerError
    ELSE StatusBadRequest

(* RespondWithInputErrors after the parameters were parsed: the message map *)
(* it leaves and the response, or the panic of the walk                     *)
RespondWithInputErrors(notifications, dataType, params, checkMissing, body, tls) ==
    LET target == IF dataType.k = "ptr" THEN dataType.elem ELSE dataType
        walked == addInputErrors(target, params, notifications, checkMissing)
        m == leftover(walked.m, walked.params)
    IN  IF walked.panic
        THEN [m |-> walked.m, outcome |-> Panic]
        ELSE [m |-> m,
              outcome |-> Respond(inputStatus(m), MessageMapValue(m), MessageMapValue(m),
                                  body, tls, FALSE)]

----------------------------------------------------------------------------
(* The state machine: a caller hands CreateResponse a value, and may hand   *)
(* the response it got back to CreateResponse again.                        *)

NoResult == R(Nil, <<>>)

Inputs ==
    ElementInputs(PtrElements) \cup ElementInputs(ShapeElements)
        \cup TagInputs \cup EmbedInputs \cup StringInputs \cup NullInputs \cup LookupInputs
        \cup FaultInputs \cup DeepInputs \cup ResultInputs \cup HookInputs

NoRequest == [op |-> "none"]

NoResponse == [k |-> "none"]

Threads == {"t1", "t2"}

(* No goroutine is inside addMessage *)
NoCallers == [t \in Threads |-> [at |-> "idle"]]

(* A message map as NewMessageMap returns it, nothing logged *)
NewLedger ==
    /\ callers = NoCallers
    /\ mm = NewMessageMap
    /\ calls = <<>>
    /\ pending = <<>>
    /\ printed = <<>>

Init ==
    /\ data \in Inputs
    /\ options \in OptionTrees
    /\ constructor \in Constructors
    /\ domain \in Domains
    /\ pc = "start"
    /\ result = NoResult
    /\ again = NoResult
    /\ NewLedger
    /\ req = NoRequest
    /\ outcome = NoResponse

Transform ==
    /\ pc = "start"
    /\ result' = CreateResponse(data, options, constructor, domain, <<>>)
    /\ pc' = "done"
    /\ UNCHANGED <<data, options, constructor, domain, again>>
    /\ UNCHANGED <<ledgerVars, requestVars>>

Retransform ==
    /\ pc = "done"
    /\ ~IsPanic(result.v)
    /\ \E o \in {NilOptions, options} :
          again' = [o |-> o, r |-> CreateResponse(result.v, o, constructor, domain, <<>>)]
    /\ pc' = "again"
    /\ UNCHANGED <<data, options, constructor, domain, result>>
    /\ UNCHANGED <<ledgerVars, requestVars>>

Next == Transform \/ Retransform

Spec == Init /\ [][Next]_vars

----------------------------------------------------------------------------
(* The message map in the hands of one request: the owner adds messages and *)
(* sets input messages; each addMessage launches a goroutine that logs.     *)

(* What callers pass as messages: a text, another text, and a text followed *)
(* by a value that is neither text, Stringer nor error, and by an error     *)
Messages ==
    {<<StringVal(S_a)>>, <<StringVal(S_b)>>,
     <<StringVal(S_a), IntVal(5), WithCaps(Inner, CapsOf({"error"}))>>}

InputNames == {<<"x">>, <<"y">>}

(* The owner makes MaxCalls calls on a map of its own, MaxNotes calls on    *)
(* the map of a request before responding                                   *)
MayCall ==
    \/ pc = "ledger" /\ Len(calls) < MaxCalls
    \/ pc = "request" /\ req = NoRequest /\ Len(calls) < MaxNotes
    \/ pc = "delivery" /\ Len(calls) < MaxLaunches

AddMessageCall(severity, messages) ==
    /\ MayCall
    /\ pending' = Append(pending, logLine(severity, messages))
    /\ mm' = addMessage(mm, severity, messages)
    /\ calls' = Append(calls, [op |-> "add", severity |-> severity, messages |-> messages])
    /\ UNCHANGED <<printed, callers, pc, transformVars, requestVars>>

AddErrorMessage == \E messages \in Messages : AddMessageCall(S_err, messages)

AddWarningMessage == \E messages \in Messages : AddMessageCall(S_warn, messages)

AddInfoMessage == \E messages \in Messages : AddMessageCall(S_info, messages)

SetInputMessage ==
    /\ MayCall
    /\ \E input \in InputNames, messages \in Messages :
          /\ mm' = setInputMessage(mm, input, messages)
          /\ calls' = Append(calls, [op |-> "input", input |-> input, messages |-> messages])
    /\ UNCHANGED <<pending, printed, callers, pc, transformVars, requestVars>>

(* One of the launched goroutines runs mm.log *)
LogDelivery ==
    /\ \E i \in 1..Len(pending) :
          /\ printed' = Append(printed, pending[i])
          /\ pending' = SubSeq(pending, 1, i - 1) \o SubSeq(pending, i + 1, Len(pending))
    /\ UNCHANGED <<mm, calls, callers, pc, transformVars, requestVars>>

NoTransform ==
    /\ data = Nil
    /\ options = NilOptions
    /\ constructor = NilConstructor
    /\ domain = S_empty
    /\ result = NoResult
    /\ again = NoResult

LedgerInit ==
    /\ NoTransform
    /\ pc = "ledger"
    /\ NewLedger
    /\ req = NoRequest
    /\ outcome = NoResponse

LedgerNext ==
    AddErrorMessage \/ AddWarningMessage \/ AddInfoMessage \/ SetInputMessage \/ LogDelivery

LedgerSpec == LedgerInit /\ [][LedgerNext]_vars

(* One of the launched goroutines runs mm.log and the sink refuses the      *)
(* line: log.Print drops the error, nothing reaches the caller              *)
LogFailure ==
    /\ pc = "delivery"
    /\ \E i \in 1..Len(pending) :
          /\ printed' = Append(printed, [prefix |-> pending[i].prefix,
                                         messages |-> pending[i].messages,
                                         failed |-> TRUE])
          /\ pending' = SubSeq(pending, 1, i - 1) \o SubSeq(pending, i + 1, Len(pending))
    /\ UNCHANGED <<mm, calls, callers, pc, transformVars, requestVars>>

DeliveryInit ==
    /\ NoTransform
    /\ pc = "delivery"
    /\ NewLedger
    /\ req = NoRequest
    /\ outcome = NoResponse

DeliveryNext ==
    \/ AddErrorMessage
    \/ AddWarningMessage
    \/ AddInfoMessage
    \/ SetInputMessage
    \/ LogDelivery
    \/ LogFailure

(* The scheduler runs every goroutine that was launched *)
DeliverySpec ==
    DeliveryInit /\ [][DeliveryNext]_vars /\ WF_vars(LogDelivery \/ LogFailure)

----------------------------------------------------------------------------
(* Two goroutines call addMessage on one map. The statement                 *)
(*   mm[severity] = append(mm[severity].([]string), mm.joinMessages(...))   *)
(* reads the bucket, appends to what it read, and assigns the bucket; no    *)
(* lock is held, so the other goroutine may run between the read and the    *)
(* assignment.                                                              *)

(* The runtime threw "concurrent map writes" *)
Fatal == \E t \in Threads : callers[t].at = "fatal"

(* A bucket that would keep the new message alone *)
assign_last(m, severity, bucket) ==
    [m EXCEPT ![severity] = <<bucket[Len(bucket)]>>]

(* mm[severity] = <the appended slice> *)
assign(m, severity, bucket) ==
    [m EXCEPT ![severity] = bucket]

(* go mm.log(...), then the right-hand side: the bucket as it is now, with  *)
(* the joined messages appended                                             *)
ReadBucket(t) ==
    /\ pc = "shared"
    /\ ~Fatal
    /\ callers[t].at = "idle"
    /\ Len(calls) < MaxShared
    /\ \E severity \in Severities, messages \in Messages :
          /\ pending' = Append(pending, logLine(severity, messages))
          /\ callers' = [callers EXCEPT ![t] =
                            [at |-> "assign", severity |-> severity,
                             bucket |-> addMessage(mm, severity, messages)[severity]]]
          /\ calls' = Append(calls, [op |-> "add", severity |-> severity,
                                     messages |-> messages, by |-> t])
    /\ UNCHANGED <<mm, printed, pc, transformVars, requestVars>>

(* The assignment to the map entry *)
AssignBucket(t) ==
    /\ pc = "shared"
    /\ ~Fatal
    /\ callers[t].at = "assign"
    /\ mm' = assign(mm, callers[t].severity, callers[t].bucket)
    /\ callers' = [callers EXCEPT ![t] = [at |-> "idle"]]
    /\ UNCHANGED <<calls, pending, printed, pc, transformVars, requestVars>>

(* Two goroutines are in the statement at once: a data race on the map,     *)
(* which the runtime may detect and end the program for                     *)
ConcurrentMapWrites ==
    /\ pc = "shared"
    /\ ~Fatal
    /\ \A t \in Threads : callers[t].at = "assign"
    /\ callers' = [t \in Threads |-> [at |-> "fatal"]]
    /\ UNCHANGED <<mm, calls, pending, printed, pc, transformVars, requestVars>>

SharedDelivery == pc = "shared" /\ ~Fatal /\ LogDelivery

SharedInit ==
    /\ NoTransform
    /\ pc = "shared"
    /\ NewLedger
    /\ req = NoRequest
    /\ outcome = NoResponse

SharedNext ==
    \/ \E t \in Threads : ReadBucket(t)
    \/ \E t \in Threads : AssignBucket(t)
    \/ ConcurrentMapWrites
    \/ SharedDelivery

SharedSpec == SharedInit /\ [][SharedNext]_vars

----------------------------------------------------------------------------
(* A request: the handler fills its message map, then answers with Respond  *)
(* or with RespondWithInputErrors                                           *)

ThingLocation == <<"/","t","h","i","n","g","s","/","1">>

ThingLinks == (<<"o","w","n","e","r">> :> <<"/","o","w","n","e","r","s","/","2">>)

ThingCaps ==
    {NoCaps, "Locationer" :> ThingLocation, "RelatedLinker" :> ThingLinks,
     ("Locationer" :> ThingLocation) @@ ("RelatedLinker" :> ThingLinks)}

(* struct { Id int; Name string <<"r","e","s","p","o","n","s","e",":","\"","t","i","t","l","e","\"">> } *)
Thing(caps) ==
    Struct(<<"T","h","i","n","g">>, caps,
           <<PlainField(S_Id, IntVal(1)),
             Field(<<"N","a","m","e">>, <<"t","i","t","l","e">>, S_empty, FALSE, T_string, StringVal(S_x))>>)

PageLocation == <<"/","p","a","g","e","s","/","1">>
PagePath == <<"/","p">>
S_next == <<"n","e","x","t">>

(* What a page offers: a location and a link to the next page; a location   *)
(* that is not rooted; a related link that is itself named "location"       *)
PageCaps ==
    {("Locationer" :> PageLocation)
         @@ ("RelatedLinker" :> (S_next :> <<"/","p","a","g","e","s","/","2">>)),
     "Locationer" :> <<"p","a","g","e","s","/","1">>,
     ("Locationer" :> PageLocation)
         @@ ("RelatedLinker" :> (S_location :> <<"/","p","a","g","e","s","/","9">>))}

(* struct { Path string }, the path rooted *)
Page(caps) ==
    Struct(<<"P","a","g","e">>, caps,
           <<PlainField(<<"P","a","t","h">>, StringVal(PagePath))>>)

Things == {Thing(caps) : caps \in ThingCaps} \cup {Page(caps) : caps \in PageCaps}

Joins == {NilOptions, Options(S_star :> OptMap(O_empty))}

Statuses == {StatusOK, StatusBadRequest, StatusInternalServerError}

S_y == <<"y">>
S_w == <<"w">>

Base == StructType(<<"B","a","s","e">>, <<InputField(<<"X">>, S_x, FALSE, StringType)>>)

Form ==
    StructType(<<"F","o","r","m">>,
               <<InputField(<<"X">>, S_x, FALSE, StringType),
                 InputField(<<"Y">>, S_y, TRUE, IntType),
                 InputField(<<"h","i","d","d","e","n">>, S_w, FALSE, StringType),
                 InputField(<<"S","k","i","p">>, S_dash, FALSE, StringType)>>)

Outer ==
    StructType(<<"O","u","t","e","r">>,
               <<EmbeddedType(Base),
                 InputField(<<"X">>, S_x, FALSE, StringType),
                 InputField(<<"Y">>, S_y, FALSE, NullType(<<"S","t","r","i","n","g">>, StringType))>>)

Deep ==
    StructType(<<"D","e","e","p">>,
               <<EmbeddedType(StructType(<<"M","i","d">>,
                     <<EmbeddedType(Base),
                       InputField(<<"Y">>, S_y, FALSE, ValidatorType({"string"}))>>)),
                 InputField(<<"Z">>, <<"z">>, TRUE, ReceiverType({"float64"}))>>)

Holder ==
    StructType(<<"H","o","l","d","e","r">>,
               <<InputField(<<"Y">>, S_y, FALSE, IntType), EmbeddedType(PtrType(Base))>>)

InputTypes == {PtrType(Form), Outer, Deep, Holder}

ParamValues == {ParamString, ParamNumber, ParamNil}

ParamMaps ==
    {px @@ py @@ pw : px \in Entry(S_x, ParamValues), py \in Entry(S_y, ParamValues),
                      pw \in Entry(S_w, {ParamString})}

ParseError == [k |-> "error"]

(* Respond with a body that parsed *)
RespondRequest ==
    /\ pc = "request"
    /\ req = NoRequest
    /\ \E status \in Statuses, thing \in Things, joins \in Joins,
          tls \in BOOLEAN, useFullDomain \in BOOLEAN :
          /\ req' = [op |-> "Respond", status |-> status, data |-> thing,
                     joins |-> joins, tls |-> tls, useFullDomain |-> useFullDomain,
                     before |-> mm]
          /\ outcome' = Respond(status, MessageMapValue(mm), thing,
                                Body(joins), tls, useFullDomain)
    /\ UNCHANGED <<ledgerVars, pc, transformVars>>

(* RespondWithInputErrors with parameters that parsed; the request carries  *)
(* no joins                                                                 *)
InputErrorsRequest ==
    /\ pc = "request"
    /\ req = NoRequest
    /\ \E dataType \in InputTypes, params \in ParamMaps, checkMissing \in BOOLEAN :
          LET answer == RespondWithInputErrors(mm, dataType, params, checkMissing,
                                               Body(NilOptions), FALSE)
          IN  /\ req' = [op |-> "RespondWithInputErrors", dataType |-> dataType,
                         params |-> params, checkMissing |-> checkMissing,
                         before |-> mm]
              /\ mm' = answer.m
              /\ outcome' = answer.outcome
    /\ UNCHANGED <<calls, pending, printed, callers, pc, transformVars>>

(* if err != nil { return err }: ParseBody or ParseParams failed *)
ParseFailure ==
    /\ pc = "request"
    /\ req = NoRequest
    /\ \E op \in {"Respond", "RespondWithInputErrors"} :
          req' = [op |-> op, before |-> mm]
    /\ outcome' = ParseError
    /\ UNCHANGED <<ledgerVars, pc, transformVars>>

RespondInit ==
    /\ NoTransform
    /\ pc = "request"
    /\ NewLedger
    /\ req = NoRequest
    /\ outcome = NoResponse

RespondNext ==
    \/ AddErrorMessage
    \/ AddWarningMessage
    \/ AddInfoMessage
    \/ SetInputMessage
    \/ LogDelivery
    \/ RespondRequest
    \/ InputErrorsRequest
    \/ ParseFailure

RespondSpec == RespondInit /\ [][RespondNext]_vars

----------------------------------------------------------------------------
(* The codec, asked by the codec service: it holds no state, every call     *)
(* answers from its arguments                                               *)

MimePrefixes ==
    {BasicMimeType, typeCategory \o <<"/","v","n","d",".","r","a","d","i","o","b","o","x">>, <<"a","p","p","l","i","c","a","t","i","o","n","/","j","s","o","n">>, <<"t","e","x","t","/","h","t","m","l">>,
     <<"a">>, S_empty}

MimeSuffixes == {S_empty, <<"+","j","s","o","n">>, <<"+","x","m","l">>, <<"+">>, <<"+","j","s","o","n","+","x">>}

MimeTypes == {prefix \o suffix : prefix \in MimePrefixes, suffix \in MimeSuffixes}

MatchedTypes == {NoMatchedType} \cup {MatchedType(t) : t \in MimeTypes}

CodecObjects == {Thing(NoCaps), StringVal(S_slash_a)}

ContentTypeSupportedCall ==
    /\ pc = "codec"
    /\ \E contentType \in MimeTypes :
          /\ req' = [op |-> "ContentTypeSupported", contentType |-> contentType]
          /\ outcome' = [k |-> "supported", b |-> ContentTypeSupported(contentType)]
    /\ UNCHANGED <<ledgerVars, pc, transformVars>>

MarshalCall ==
    /\ pc = "codec"
    /\ \E object \in CodecObjects, status \in {StatusOK, StatusBadRequest},
          matched \in MatchedTypes :
          /\ req' = [op |-> "Marshal", object |-> object, status |-> status,
                     matched |-> matched]
          /\ outcome' = MarshalWith(object,
                                    CodecOptions(status, Body(NilOptions),
                                                 MessageMapValue(mm), S_empty, EmptyMap),
                                    matched)
    /\ UNCHANGED <<ledgerVars, pc, transformVars>>

CodecInit ==
    /\ NoTransform
    /\ pc = "codec"
    /\ NewLedger
    /\ req = NoRequest
    /\ outcome = NoResponse

CodecNext == ContentTypeSupportedCall \/ MarshalCall

CodecSpec == CodecInit /\ [][CodecNext]_vars

----------------------------------------------------------------------------
(* Reading a state: the element placed in a container, the sub-options the  *)
(* container selects for it, and the place of its representation.           *)

Absent == [k |-> "absent"]

IsElementContainer(d) ==
    \/ d.k = "struct" /\ d.t = <<"S">> /\ Len(d.fields) = 1 /\ d.fields[1].name = <<"A">>
    \/ d.k = "slice" /\ Len(d.items) >= 1
    \/ d.k = "map" /\ DOMAIN d.m = {S_a}

ElementSlot(d) ==
    CASE d.k = "struct" -> [st |-> d.fields[1].st, v |-> d.fields[1].v]
      [] d.k = "slice" -> [st |-> d.et, v |-> d.items[1]]
      [] d.k = "map" -> [st |-> d.et, v |-> d.m[S_a]]

Selected(d, opts) ==
    CASE d.k = "struct" -> StructSubOptions(opts, S_a)
      [] d.k = "slice" -> [panic |-> FALSE, o |-> opts]
      [] d.k = "map" -> MapElementOptions(opts, S_a)

OutAt(d, out) ==
    CASE d.k = "slice" -> out.items[1]
      [] OTHER -> IF S_a \in DOMAIN out.m THEN out.m[S_a] ELSE Absent

IsFull(o) == Str(Get(o, S_type)) = S_full

Called(log, c) == \E i \in 1..Len(log) : log[i].c = c

Prefixed(str) ==
    IF domain # S_empty /\ str # S_empty /\ str[1] = "/" THEN domain \o str ELSE str

(* An element reached without the "full" marker *)
ElementCase ==
    /\ pc = "done"
    /\ IsElementContainer(data)
    /\ ~Selected(data, options).panic
    /\ ~IsFull(Selected(data, options).o)

IsNilPointer(v) == v.k = "ptr" /\ v.isnil

(* What encodes as null: the nil interface, a nil pointer, and an entry     *)
(* that a map response leaves out                                           *)
IsNull(v) == v.k = "nil" \/ v.k = "absent" \/ IsNilPointer(v)

----------------------------------------------------------------------------
(* C1: a nested element reached without the "full" marker is represented by *)
(* the first matching rule of: nil pointer (the nil-element capability's    *)
(* result, else an explicit null), custom element, Stringer, error, generic *)
(* dispatch; String() is never used for a type that also offers the custom  *)
(* element, and for a nil pointer only the nil-element capability is        *)
(* invoked.                                                                 *)

C1_CapabilityOrder ==
    ElementCase /\ data \in ElementInputs(PtrElements) =>
        LET e == ElementSlot(data).v
            out == result.v
        IN  /\ IsNilPointer(e) =>
                /\ \A i \in 1..Len(result.log) : result.log[i].c = "NilResponseValue"
                /\ HasCap(e, "NilResponder") <=> Called(result.log, "NilResponseValue")
                /\ ~IsPanic(out) =>
                      IF HasCap(e, "NilResponder")
                      THEN OutAt(data, out) = CapResult("NilResponder")
                      ELSE IsNull(OutAt(data, out))
            /\ ~IsNilPointer(e) /\ HasCap(e, "ResponseValueCreator") =>
                /\ ~Called(result.log, "String") /\ ~Called(result.log, "Error")
                /\ ~IsPanic(out) => OutAt(data, out) = StringVal(Prefixed(<<"/","v">>))
            /\ ~IsNilPointer(e) /\ ~HasCap(e, "ResponseValueCreator") /\ HasCap(e, "Stringer") =>
                /\ ~Called(result.log, "Error")
                /\ ~IsPanic(out) => OutAt(data, out) = StringVal(Prefixed(<<"/","s">>))
            /\ ~IsNilPointer(e) /\ ~HasCap(e, "ResponseValueCreator")
                 /\ ~HasCap(e, "Stringer") /\ HasCap(e, "error") =>
                (~IsPanic(out) => OutAt(data, out) = StringVal(Prefixed(<<"/","e">>)))
            /\ ~IsNilPointer(e) /\ DOMAIN Caps(e) \subseteq {"NilResponder"} =>
                /\ result.log = <<>>
                /\ ~IsPanic(out) => OutAt(data, out) = ObjxMap(<<"n">> :> IntVal(1))

----------------------------------------------------------------------------
(* C2: when the sub-options selected for a nested, non-nil element hold     *)
(* type = "full", none of its custom-element, Stringer and error            *)
(* capabilities is used and it goes through the generic shape dispatch;     *)
(* otherwise the capability order applies.                                  *)

CapabilityInputs == ElementInputs(PtrElements) \cup ElementInputs(ShapeElements)

SelectedCase ==
    /\ pc = "done"
    /\ data \in CapabilityInputs
    /\ ~Selected(data, options).panic
    /\ ~IsNull(ElementSlot(data).v)

FullCase == SelectedCase /\ IsFull(Selected(data, options).o)

Deref(v) == IF v.k = "ptr" THEN v.e ELSE v

NoCapabilityUsed(log) ==
    ~Called(log, "ResponseValue") /\ ~Called(log, "String") /\ ~Called(log, "Error")

FullExpected(e, o) ==
    LET v == Deref(e)
    IN  CASE v.k = "struct" ->
                IF \E i \in 1..Len(v.fields) : ToLower(v.fields[i].name) = S_type
                THEN Panic
                ELSE ObjxMap([key \in {ToLower(v.fields[i].name) : i \in 1..Len(v.fields)} |->
                                v.fields[CHOOSE i \in 1..Len(v.fields) :
                                            ToLower(v.fields[i].name) = key].v])
          [] v.k = "slice" ->
                IF constructor = NilConstructor
                THEN Panic
                ELSE [k |-> "map", t |-> T_msi, kt |-> T_string, et |-> T_iface,
                      m |-> (S_response :> IfaceSlice(v.items)), caps |-> NoCaps]
          [] v.k = "map" ->
                IF \A key \in DOMAIN v.m :
                      \/ key \in DOMAIN o.ent /\ o.ent[key].k = "msi"
                      \/ key \notin DOMAIN o.ent /\ S_star \in DOMAIN o.ent
                            /\ o.ent[S_star].k = "msi"
                THEN v
                ELSE Panic
          [] v.k = "string" -> IF domain = S_empty THEN e ELSE StringVal(Prefixed(v.s))
          [] OTHER -> e

----------------------------------------------------------------------------
(* C3: the response key of every exported, non-embedded field is the        *)
(* "response" tag if non-empty, else the "db" tag if non-empty and not "-", *)
(* else the lowercased field name, for every field name, a field named Id   *)
(* included.                                                                *)

PrecedenceKey(f) ==
    IF f.resp # S_empty THEN f.resp
    ELSE IF f.db # S_empty /\ f.db # S_dash THEN f.db
    ELSE ToLower(f.name)

OrdinaryFields(v) ==
    {i \in 1..Len(v.fields) : ~v.fields[i].anon /\ IsUpper(v.fields[i].name[1])}

(* A struct of ordinary fields that was transformed to a mapping *)
StructCase ==
    /\ pc = "done"
    /\ data.k = "struct"
    /\ \A i \in 1..Len(data.fields) : ~data.fields[i].anon
    /\ ~createNullableDbResponse(data).found
    /\ ~IsPanic(result.v)

C3_KeyPrecedence ==
    StructCase =>
        DOMAIN result.v.m =
            {PrecedenceKey(data.fields[i]) : i \in OrdinaryFields(data)} \ {S_dash}

----------------------------------------------------------------------------
(* C4: a field whose resolved response key is "-" leaves no entry in the    *)
(* output mapping, whatever its value and whatever the options tree, and    *)
(* none of the capability methods of its value is invoked.                  *)

SkipCase ==
    /\ pc = "done"
    /\ data \in TagInputs
    /\ IsUpper(data.fields[1].name[1])
    /\ ResponseTag(data.fields[1]) = S_dash

C4_KeySkip ==
    SkipCase =>
        /\ result.v = ObjxMap(S_b :> IntVal(2))
        /\ result.log = <<>>

(* A field named Id that summarizes itself, skipped under a wildcard entry *)
C4_Witness ==
    /\ SkipCase
    /\ data.fields[1].name = S_Id
    /\ data.fields[1].v = Summarized
    /\ Has(options, S_star)
    /\ DOMAIN result.v.m = {S_b}
    /\ result.log = <<>>

----------------------------------------------------------------------------
(* C5: a key that a direct field and an embedded struct both contribute     *)
(* holds the direct field's transformed value, whether the direct field is  *)
(* declared before or after the embedded one; a key that only embedded      *)
(* structs contribute holds the first-declared embedded struct's value.     *)

Last(S) == CHOOSE i \in S : \A j \in S : j <= i

First(S) == CHOOSE i \in S : \A j \in S : i <= j

Scalar(v) == IF v.k = "string" THEN StringVal(Prefixed(v.s)) ELSE v

RECURSIVE Contribution(_, _)

(* What a struct contributes under a key: its own field's value if it has   *)
(* one (the last declared if several resolve to the key), else what the     *)
(* first embedded struct contributing the key contributes, else nothing     *)
Contribution(v, key) ==
    LET s == Deref(v)
        direct == {i \in 1..Len(s.fields) :
                      /\ ~s.fields[i].anon
                      /\ IsUpper(s.fields[i].name[1])
                      /\ PrecedenceKey(s.fields[i]) = key}
        embedded == {i \in 1..Len(s.fields) :
                        s.fields[i].anon /\ Contribution(s.fields[i].v, key) # Absent}
    IN  IF direct # {} THEN Scalar(s.fields[Last(direct)].v)
        ELSE IF embedded # {} THEN Contribution(s.fields[First(embedded)].v, key)
        ELSE Absent

EmbedCase == pc = "done" /\ data \in EmbedInputs

C5_EmbeddingPrecedence ==
    EmbedCase =>
        /\ result.v.k = "map"
        /\ \A key \in {S_x, <<"y">>} \cup DOMAIN result.v.m :
              IF key \in DOMAIN result.v.m
              THEN result.v.m[key] = Contribution(data, key)
              ELSE Contribution(data, key) = Absent

(* A direct X declared after one embedded struct and before another, both   *)
(* contributing "x"; and two embedded structs alone                         *)
C5_Witness ==
    /\ EmbedCase
    /\ domain # S_empty
    /\ \/ /\ data.fields = <<Embedded(E), PlainField(S_X, StringVal(<<"/","d">>)), Embedded(G)>>
          /\ result.v.m[S_x] = StringVal(domain \o <<"/","d">>)
          /\ result.v.m[<<"y">>] = IntVal(3)
       \/ /\ data.fields = <<Embedded(G), Embedded(E)>>
          /\ result.v.m[S_x] = StringVal(domain \o <<"/","g">>)

----------------------------------------------------------------------------
(* C6: the sub-options of a struct field or map entry with key k are the    *)
(* options entry for k when there is one, else the wildcard entry when      *)
(* there is one; the wildcard entry is never used for a key that has its    *)
(* own entry.                                                               *)

(* The entry the claim selects for a key *)
ExactFirst(opts, key) ==
    IF key \in DOMAIN opts.ent THEN opts.ent[key]
    ELSE IF S_star \in DOMAIN opts.ent THEN opts.ent[S_star]
    ELSE OptNull

LookupElement(d, key) ==
    IF d.k = "struct"
    THEN d.fields[CHOOSE i \in 1..Len(d.fields) : ToLower(d.fields[i].name) = key].v
    ELSE d.m[key]

LookupCase == pc = "done" /\ data \in LookupInputs /\ ~IsPanic(result.v)

(* Each element reports the options it was handed through its custom        *)
(* element method; under "full" the method is not called and the element is *)
(* expanded field by field                                                  *)
C6_ExactOverWildcard ==
    LookupCase =>
        \A key \in {S_a, S_b} :
            LET e == LookupElement(data, key)
                sel == ExactFirst(options, key)
                handed == IF sel.k = "msi" THEN sel.o ELSE NilOptions
                events == {i \in 1..Len(result.log) : result.log[i].t = e.t}
            IN  IF IsFull(handed)
                THEN /\ events = {}
                     /\ result.v.m[key] =
                            ObjxMap(<<"n">> :> e.e.fields[1].v)
                ELSE /\ events # {}
                     /\ \A i \in events :
                            /\ result.log[i].c = "ResponseValue"
                            /\ result.log[i].o = handed
                     /\ result.v.m[key] = StringVal(Prefixed(<<"/","v">>))

(* "a" has its own entry and "b" only the wildcard, with different contents *)
C6_Witness ==
    /\ LookupCase
    /\ Get(options, S_a) = OptMap(O_empty)
    /\ Get(options, S_star) = OptMap(O_other)
    /\ \E i, j \in 1..Len(result.log) :
          /\ result.log[i] = Event("ResponseValue", Va, O_empty)
          /\ result.log[j] = Event("ResponseValue", Vb, O_other)

----------------------------------------------------------------------------
(* C7: a map {"a": 1, "b": 2} transformed with options that hold an entry   *)
(* for "a" and neither an entry for "b" nor a wildcard is transformed to    *)
(* completion, "b" with empty sub-options.                                  *)

AbsentEntryCase ==
    /\ pc = "done"
    /\ data.k = "map"
    /\ DOMAIN data.m = {S_a, S_b}
    /\ ~options.isnil
    /\ IsMSI(Get(options, S_a))
    /\ ~Has(options, S_b)
    /\ ~Has(options, S_star)

C7_AbsentEntryMeansNoOptions ==
    AbsentEntryCase =>
        /\ ~IsPanic(result.v)
        /\ data.m[S_a].k = "int" => result.v.m = data.m

----------------------------------------------------------------------------
(* C8: a string reached by the transformer at the top level, in a field, as *)
(* a sequence item, as a map value, or as the result of a nested element's  *)
(* String() or Error(), becomes domain + string exactly when the domain is  *)
(* non-empty and the string begins with "/"; otherwise its content is       *)
(* unchanged.                                                               *)

IsPlainString(v) == v.k = "string" /\ Caps(v) = NoCaps

(* The string content of a response value *)
Content(v) == IF Deref(v).k = "string" THEN Deref(v).s ELSE <<"?">>

(* The string that the capability order makes of a nested element, if any *)
CapabilityString(e, o) ==
    IF IsFull(o) THEN IF Deref(e).k = "string" THEN Deref(e).s ELSE <<"?">>
    ELSE IF HasCap(e, "ResponseValueCreator") THEN <<"/","v">>
    ELSE IF HasCap(e, "Stringer") THEN <<"/","s">>
    ELSE IF HasCap(e, "error") THEN <<"/","e">>
    ELSE IF Deref(e).k = "string" THEN Deref(e).s
    ELSE <<"?">>

Completed == pc = "done" /\ ~IsPanic(result.v)

----------------------------------------------------------------------------
(* C9: a nullable wrapper (type name "Null" + F, fields Valid and F)        *)
(* transforms to nil when Valid is false and, when Valid is true, to the    *)
(* value of F transformed as any other scalar, a string beginning with "/"  *)
(* being domain-prefixed; it never transforms to a mapping.                 *)

NullableCase == pc = "done" /\ Deref(data) \in Nullables /\ ~IsPanic(result.v)

C9_NullableUnwrap ==
    NullableCase =>
        LET n == Deref(data)
        IN  /\ result.v.k # "map"
            /\ ~n.fields[2].v.b => result.v = Nil
            /\ n.fields[2].v.b => result.v = Scalar(n.fields[1].v)

----------------------------------------------------------------------------
(* C10: transforming a response again, with the same domain, gives the same *)
(* response: the same keys (those holding nil included), the same sequence  *)
(* order, the same scalars.                                                 *)

C10_Idempotent ==
    pc = "again" =>
        /\ ~IsPanic(again.r.v)
        /\ again.r.v = result.v

----------------------------------------------------------------------------
(* C11: after any sequence of AddErrorMessage, AddWarningMessage and        *)
(* AddInfoMessage calls by the owner, each bucket holds exactly the texts   *)
(* added for its severity, in call order and with duplicates, whether or    *)
(* not any launched log goroutine has run; no call shortens a bucket or     *)
(* touches the bucket of another severity.                                  *)

(* The text of a call: the string passed, or several messages joined *)
CallText(messages) ==
    IF Len(messages) = 1 /\ messages[1].k = "string"
    THEN messages[1].s
    ELSE joinMessages(messages)

RECURSIVE TextsAdded(_, _, _)

(* The texts of the first n calls that added to the severity, in call order *)
TextsAdded(history, n, severity) ==
    IF n = 0 THEN <<>>
    ELSE IF history[n].op = "add" /\ history[n].severity = severity
         THEN Append(TextsAdded(history, n - 1, severity), CallText(history[n].messages))
         ELSE TextsAdded(history, n - 1, severity)

C11_LedgerOrdering ==
    pc = "ledger" =>
        /\ Errors(mm) = TextsAdded(calls, Len(calls), S_err)
        /\ Warnings(mm) = TextsAdded(calls, Len(calls), S_warn)
        /\ Infos(mm) = TextsAdded(calls, Len(calls), S_info)

(* "a" then "b" then "a" again added as errors, read before any log ran *)
C11_Witness ==
    /\ pc = "ledger"
    /\ Len(calls) = 3
    /\ Errors(mm) = <<S_a, S_b, S_a>>
    /\ Warnings(mm) = <<>>
    /\ Len(pending) = 3
    /\ printed = <<>>

----------------------------------------------------------------------------
(* C12: SetInputMessage(field, text) sets the field's entry of the input    *)
(* mapping to text, the last text set for a field winning; it leaves the    *)
(* three buckets and the entries of other fields as they were; the input    *)
(* mapping exists from construction on.                                     *)

LastSet(history, input) ==
    CHOOSE i \in 1..Len(history) :
        /\ history[i].op = "input" /\ history[i].input = input
        /\ \A j \in 1..Len(history) :
              history[j].op = "input" /\ history[j].input = input => j <= i

InputsSet(history) ==
    {history[i].input : i \in {j \in 1..Len(history) : history[j].op = "input"}}

C12_SetInputMessage ==
    pc = "ledger" =>
        /\ DOMAIN mm = {S_err, S_warn, S_info, S_input}
        /\ DOMAIN InputMessages(mm) = InputsSet(calls)
        /\ \A input \in InputsSet(calls) :
              InputMessages(mm)[input] = CallText(calls[LastSet(calls, input)].messages)
        /\ \A severity \in Severities :
              Len(mm[severity]) =
                  Cardinality({i \in 1..Len(calls) :
                                  calls[i].op = "add" /\ calls[i].severity = severity})

(* "x" set twice and "y" once after an error was added *)
C12_Witness ==
    /\ pc = "ledger"
    /\ Len(calls) = 3
    /\ calls[1].op = "input" /\ calls[1].input = <<"x">> /\ calls[1].messages = <<StringVal(S_a)>>
    /\ calls[2].op = "add"
    /\ calls[3].op = "input" /\ calls[3].input = <<"x">> /\ calls[3].messages = <<StringVal(S_b)>>
    /\ InputMessages(mm) = (<<"x">> :> S_b)
    /\ Len(Errors(mm)) + Len(Warnings(mm)) + Len(Infos(mm)) = 1

----------------------------------------------------------------------------
(* Reading the answer to a request *)

Responded == pc = "request" /\ outcome.k = "responded"

Answered(op) == Responded /\ req.op = op

Envelope == outcome.response

MetaOf(envelope) == envelope.m[S_meta].m

NotificationsOf(envelope) == envelope.m[S_notifications].m

ThingResponse == ObjxMap((<<"i","d">> :> IntVal(1)) @@ (<<"t","i","t","l","e">> :> StringVal(S_x)))

ThingUrl == <<"h","t","t","p","s",":","/","/","h","/","t","h","i","n","g","s","/","1">>

----------------------------------------------------------------------------
(* C13: for status 200, domain https://h and a top-level value that offers  *)
(* the location capability returning /things/1 and no related-links         *)
(* capability, the envelope has meta.location = "https://h/things/1",       *)
(* meta.links = {"location": "https://h/things/1"}, meta.code = 200 and a   *)
(* response equal to the transformed body.                                  *)

EnvelopeScenario ==
    /\ Answered("Respond")
    /\ req.status = StatusOK
    /\ req.tls
    /\ req.data = Thing("Locationer" :> ThingLocation)

C13_EnvelopeScenario ==
    EnvelopeScenario =>
        /\ MetaOf(Envelope)[S_location] = StringVal(ThingUrl)
        /\ MetaOf(Envelope)[S_links] = StringMap(S_location :> ThingUrl)
        /\ MetaOf(Envelope)[S_code] = IntVal(StatusOK)
        /\ Envelope.m[S_response] = ThingResponse

----------------------------------------------------------------------------
(* C14, as stated: for a 200 response whose top-level value does not offer  *)
(* the location capability, meta.location is the marker "Error: no location *)
(* present", meta.links is empty, and building the response adds nothing to *)
(* the ledger; for another status, meta has neither location nor links.     *)

NoLinks == StringMap(EmptyMap)

C14_NoLocation_AsStated ==
    /\ Answered("Respond") /\ req.status = StatusOK /\ ~HasCap(req.data, "Locationer") =>
          /\ MetaOf(Envelope)[S_location] = StringVal(NoLocation)
          /\ MetaOf(Envelope)[S_links] = NoLinks
    /\ Answered("Respond") => mm = req.before
    /\ Responded /\ outcome.status # StatusOK =>
          DOMAIN MetaOf(Envelope) = {S_code, S_input_params}

(* C14, amended: for a 200 response whose top-level value does not offer    *)
(* the location capability, meta.location is the marker; meta.links is      *)
(* empty when the value does not offer the related-links capability either, *)
(* and otherwise holds the marker under "location" and every related link,  *)
(* prefixed with the request's domain, under its relation; building the     *)
(* response adds nothing to the ledger; for another status, meta has        *)
(* neither location nor links.                                              *)

C14_NoLocation ==
    /\ Answered("Respond") /\ req.status = StatusOK /\ ~HasCap(req.data, "Locationer") =>
          /\ MetaOf(Envelope)[S_location] = StringVal(NoLocation)
          /\ MetaOf(Envelope)[S_links] =
                IF HasCap(req.data, "RelatedLinker")
                THEN StringMap((S_location :> NoLocation)
                        @@ [rel \in DOMAIN ThingLinks |->
                               RequestDomain(req.tls) \o ThingLinks[rel]])
                ELSE NoLinks
    /\ Answered("Respond") => mm = req.before
    /\ Responded /\ outcome.status # StatusOK =>
          DOMAIN MetaOf(Envelope) = {S_code, S_input_params}

C14_Witness ==
    /\ Answered("Respond")
    /\ req.status = StatusOK
    /\ Caps(req.data) = NoCaps
    /\ MetaOf(Envelope)[S_location] = StringVal(NoLocation)
    /\ MetaOf(Envelope)[S_links] = NoLinks
    /\ Len(calls) = MaxNotes

----------------------------------------------------------------------------
(* C15: the notifications section of the envelope consists of the buckets   *)
(* err, warn and info, and holds the input-field messages only when at      *)
(* least one was set; with an unused ledger it is exactly                   *)
(* {"err": [], "warn": [], "info": []}.                                     *)

C15_Notifications ==
    Responded =>
        /\ DOMAIN NotificationsOf(Envelope) =
              {S_err, S_warn, S_info}
                  \cup (IF DOMAIN InputMessages(mm) # {} THEN {S_input} ELSE {})
        /\ mm = NewMessageMap =>
              NotificationsOf(Envelope) = [x \in {S_err, S_warn, S_info} |-> StringSlice(<<>>)]

----------------------------------------------------------------------------
(* C16: RespondWithInputErrors answers 400 when, after validation, the      *)
(* input-field mapping holds at least one entry (entries set before the     *)
(* call included) and 500 when it holds none, whatever the err, warn and    *)
(* info buckets hold.                                                       *)

C16_InputStatus ==
    Answered("RespondWithInputErrors") =>
        /\ outcome.status = IF DOMAIN InputMessages(mm) # {}
                            THEN StatusBadRequest
                            ELSE StatusInternalServerError
        /\ DOMAIN InputMessages(req.before) # {} => outcome.status = StatusBadRequest
        /\ MetaOf(Envelope)[S_code] = IntVal(outcome.status)

C16_Witness ==
    /\ Answered("RespondWithInputErrors")
    /\ outcome.status = StatusInternalServerError
    /\ Errors(mm) # <<>>
    /\ DOMAIN req.params # {}

----------------------------------------------------------------------------
(* C17: input validation never faults: for every target struct type and     *)
(* every parameter map, a null for an ordinary field included, a value that *)
(* cannot be converted to its field's type becomes that field's entry in    *)
(* the input-field mapping and validation returns normally.                 *)

Validated == pc = "request" /\ req.op = "RespondWithInputErrors" /\ "params" \in DOMAIN req

C17_NeverFaults ==
    Validated =>
        /\ ~IsPanic(outcome)
        /\ req.dataType = PtrType(Form) /\ S_x \in DOMAIN req.params
              /\ req.params[S_x] # ParamString =>
              InputMessages(mm)[S_x] = WrongType

----------------------------------------------------------------------------
(* C18: after addInputErrors and the leftover pass the input-field mapping  *)
(* holds an entry for exactly (a) every parameter without a target field,   *)
(* (b) every non-optional exported field, at any depth of embedding,        *)
(* without a submitted value when checkMissing is true, and (c) every       *)
(* parameter whose value fails its field's check; a parameter that was      *)
(* submitted and passed its check gets no entry, also when an embedded      *)
(* struct and the outer struct declare the same input name.                 *)

RECURSIVE TargetFields(_)

(* The exported, named fields of a type and of the structs it embeds *)
TargetFields(type) ==
    LET fields == type.fields
        Of(i) == IF fields[i].anonymous
                 THEN IF "fields" \in DOMAIN fields[i].type
                      THEN TargetFields(fields[i].type)
                      ELSE {}
                 ELSE IF IsExported(fields[i]) /\ fields[i].input # S_dash
                 THEN {fields[i]}
                 ELSE {}
    IN  UNION {Of(i) : i \in 1..Len(fields)}

StructOf(type) == IF type.k = "ptr" THEN type.elem ELSE type

ExpectedInputMessages(type, params, checkMissing) ==
    LET targets == TargetFields(StructOf(type))
        names == {f.input : f \in targets}
        untargeted == (DOMAIN params) \ names
        missing == {f.input : f \in {g \in targets : ~g.optional /\ checkMissing}}
                       \ DOMAIN params
        failed == {f \in targets : /\ f.input \in DOMAIN params
                                   /\ checkForInputError(f.type, params[f.input]).k = "error"}
    IN  [x \in untargeted \cup missing \cup {f.input : f \in failed} |->
            IF x \in untargeted THEN NoTargetField
            ELSE IF x \in missing THEN NoInputForRequired
            ELSE checkForInputError((CHOOSE f \in failed : f.input = x).type, params[x]).text]

C18_Accumulation ==
    Answered("RespondWithInputErrors") =>
        LET expected == ExpectedInputMessages(req.dataType, req.params, req.checkMissing)
            before == InputMessages(req.before)
        IN  InputMessages(mm) =
                [x \in (DOMAIN before) \cup (DOMAIN expected) |->
                    IF x \in DOMAIN expected THEN expected[x] ELSE before[x]]

----------------------------------------------------------------------------
(* C19: the transformer is total on business data: for every value built    *)
(* from structs (embedded nil pointers, nullable wrappers, error values and *)
(* non-struct types included), sequences, string-keyed maps, pointers and   *)
(* scalars, and every options tree whose entries are all mappings,          *)
(* CreateResponse returns a response tree and never aborts.                 *)

RECURSIVE AllMappings(_)

AllMappings(o) ==
    \/ o.isnil
    \/ \A key \in DOMAIN o.ent : IsMSI(o.ent[key]) /\ AllMappings(o.ent[key].o)

C19_Total ==
    pc = "done" /\ AllMappings(options) /\ constructor # NilConstructor =>
        ~IsPanic(result.v)

----------------------------------------------------------------------------
(* C20, as stated: the callback is invoked for a sequence that is the       *)
(* top-level value whenever a callback was supplied, and is not invoked for *)
(* a sequence that is a nested element, whatever the options.               *)

ConstructedFor(log, v) ==
    \E i \in 1..Len(log) : log[i].c = "constructor" /\ log[i].t = v.t

(* The log names a value by its type: the items are of another type than    *)
(* the sequence                                                             *)
TopSequenceCase ==
    /\ pc = "done"
    /\ data.k = "slice"
    /\ \A i \in 1..Len(data.items) : data.items[i].t # data.t
    /\ constructor # NilConstructor
    /\ ~IsPanic(result.v)

NestedSequenceCase ==
    /\ pc = "done"
    /\ IsElementContainer(data)
    /\ data \in ElementInputs(ShapeElements)
    /\ ElementSlot(data).v.k = "slice"
    /\ Caps(ElementSlot(data).v) = NoCaps
    /\ ~Selected(data, options).panic
    /\ constructor # NilConstructor
    /\ ~IsPanic(result.v)

C20_ConstructorAtTop_AsStated ==
    /\ TopSequenceCase => ConstructedFor(result.log, data)
    /\ NestedSequenceCase => ~ConstructedFor(result.log, ElementSlot(data).v)

(* C20, amended: with a callback supplied, the transformer does not invoke  *)
(* it for a sequence that is the top-level value, which is answered as the  *)
(* sequence of its transformed items; it invokes it for a sequence that is  *)
(* a nested element exactly when the options selected for that element are  *)
(* not nil, and the element is then represented by the callback's result.   *)

C20_ConstructorForNested ==
    /\ TopSequenceCase =>
          /\ ~ConstructedFor(result.log, data)
          /\ result.v.k = "slice"
          /\ Len(result.v.items) = Len(data.items)
    /\ NestedSequenceCase =>
          LET e == ElementSlot(data).v
              out == OutAt(data, result.v)
          IN  IF Selected(data, options).o.isnil
              THEN ~ConstructedFor(result.log, e) /\ out = IfaceSlice(e.items)
              ELSE ConstructedFor(result.log, e)
                      /\ out = Msi(S_response :> IfaceSlice(e.items))

C20_Witness ==
    /\ NestedSequenceCase
    /\ data.k = "slice"
    /\ Len(data.items) = MaxItems
    /\ ~options.isnil
    /\ ConstructedFor(result.log, ElementSlot(data).v)
    /\ ~ConstructedFor(result.log, data)

----------------------------------------------------------------------------
(* C21: the codec supports its own content type:                            *)
(* ContentTypeSupported(ContentType()) is true, ContentTypeSupported(t) is  *)
(* true for every t of the form                                             *)
(* "application/vnd.radiobox.encapsulated+<format>", and false for every    *)
(* type whose part before '+' differs from the vendor type.                 *)

Asked(op) == pc = "codec" /\ req.op = op

BeforePlus(t) == IF IndexRune(t, "+") = -1 THEN t ELSE Upto(t, IndexRune(t, "+"))

IsVendorFormat(t) == IndexRune(t, "+") # -1 /\ BeforePlus(t) = BasicMimeType

C21_OwnContentType ==
    Asked("ContentTypeSupported") =>
        /\ req.contentType = ContentType => outcome.b
        /\ IsVendorFormat(req.contentType) => outcome.b
        /\ BeforePlus(req.contentType) # BasicMimeType => ~outcome.b

----------------------------------------------------------------------------
(* C29: Marshal selects the base codec from the suffix of the matched type  *)
(* without faulting: "application/vnd.radiobox.encapsulated+<format>" gives *)
(* the base codec "application/<format>", a matched type without '+' or an  *)
(* absent one gives "application/json", and no matched type makes Marshal   *)
(* abort.                                                                   *)

C29_BaseCodec ==
    Asked("Marshal") =>
        LET matched == req.matched
        IN  /\ ~IsPanic(outcome)
            /\ matched.present /\ IsVendorFormat(matched.s) =>
                  outcome.codec = typeCategory \o <<"/">>
                                      \o From(matched.s, Len(BasicMimeType) + 1)
            /\ ~matched.present \/ IndexRune(matched.s, "+") = -1 =>
                  outcome.codec = defaultBaseType

----------------------------------------------------------------------------
(* C22: the "full" marker disables the capabilities of the whole subtree:   *)
(* for an element whose selected sub-options are {type: "full"}, every      *)
(* descendant of the element (a field of a field, an item of a nested       *)
(* sequence, a value of a nested map) is expanded structurally, none of its *)
(* custom-element, Stringer and error capabilities being used, and the      *)
(* expansion of a non-empty map-valued descendant completes.                *)

DeepCase ==
    /\ pc = "done"
    /\ data \in DeepInputs
    /\ ~Selected(data, options).panic
    /\ Selected(data, options).o = O_full
    /\ constructor # NilConstructor

HasMapDescendant(e) ==
    \/ e.k = "struct" /\ e.fields[1].v.k = "map"
    \/ e.k = "slice" /\ e.items[1].k = "map"

C22_FullSubtree ==
    DeepCase =>
        /\ NoCapabilityUsed(result.log)
        /\ HasMapDescendant(ElementSlot(data).v) => ~IsPanic(result.v)

----------------------------------------------------------------------------
(* C23: the result of whichever capability resolves a nested element (the   *)
(* nil-element, custom-element, Stringer or error capability) is itself     *)
(* transformed as a nested element, with the same sub-options and domain,   *)
(* before it is placed in the output: a struct gives a mapping, a string    *)
(* that begins with "/" a domain-prefixed string.                           *)

ResolvedCase ==
    /\ ElementCase
    /\ data \in ElementInputs(PtrElements) \cup ResultInputs
    /\ ~IsPanic(result.v)
    /\ result.log # <<>>

(* What the capability named by the first event of the log returned *)
Resolution(e, c) ==
    CASE c = "NilResponseValue" -> Caps(e)["NilResponder"]
      [] c = "ResponseValue" -> Caps(e)["ResponseValueCreator"]
      [] c = "String" -> StringVal(Caps(e)["Stringer"])
      [] c = "Error" -> StringVal(Caps(e)["error"])

(* The results are strings and the struct G, whose field X holds "/g" *)
TransformedResult(r) ==
    IF r.k = "string"
    THEN StringVal(Prefixed(r.s))
    ELSE ObjxMap(S_x :> StringVal(Prefixed(<<"/","g">>)))

C23_ResultTransformed ==
    ResolvedCase =>
        OutAt(data, result.v) =
            TransformedResult(Resolution(ElementSlot(data).v, result.log[1].c))

----------------------------------------------------------------------------
(* C24: in one transform call, a value that offers deferred population has  *)
(* LazyLoad invoked exactly once, with the current options node, before     *)
(* ResponseObject is asked and before any field, item or entry is read;     *)
(* LazyLoad is invoked on the original value, never on the substitute that  *)
(* ResponseObject returns, and the substitute is what shape dispatch walks. *)

HookCase ==
    /\ pc = "done"
    /\ data \in HookInputs
    /\ data \in HookElements \/ ~Selected(data, options).panic

(* The hooked value, the options node of its transform call, and the number *)
(* of transform calls made for it                                           *)
HookTarget ==
    IF data \in HookElements
    THEN [v |-> data, o |-> options, n |-> 1, out |-> result.v]
    ELSE [v |-> ElementSlot(data).v, o |-> Selected(data, options).o,
          n |-> IF data.k = "slice" THEN Len(data.items) ELSE 1,
          out |-> IF IsPanic(result.v) THEN Panic ELSE OutAt(data, result.v)]

Count(log, c) == Cardinality({i \in 1..Len(log) : log[i].c = c})

C24_HookOrder ==
    HookCase =>
        LET h == HookTarget
            log == result.log
            loader == HasCap(h.v, "LazyLoader")
            creator == HasCap(h.v, "ResponseObjectCreator")
        IN  /\ \A i \in 1..Len(log) :
                  /\ log[i].c = "LazyLoad" =>
                        /\ log[i] = Event("LazyLoad", h.v, h.o)
                        /\ creator => i < Len(log)
                                        /\ log[i + 1] = Event("ResponseObject", h.v, NilOptions)
                  /\ log[i].c = "ResponseObject" /\ loader =>
                        i > 1 /\ log[i - 1].c = "LazyLoad"
                  /\ log[i].c = "String" => i > 1 /\ log[i - 1].c # "String"
            /\ log # <<>>
            /\ log[1].c = IF loader THEN "LazyLoad" ELSE "ResponseObject"
            /\ ~IsPanic(result.v) =>
                  /\ Count(log, "LazyLoad") = IF loader THEN h.n ELSE 0
                  /\ Count(log, "ResponseObject") = IF creator THEN h.n ELSE 0
                  /\ DOMAIN h.out.m = IF creator THEN {S_x} ELSE {<<"f">>}

C24_Witness ==
    /\ HookCase
    /\ data \in HookElements
    /\ ~options.isnil
    /\ Len(result.log) = 3
    /\ result.log[1] = Event("LazyLoad", data, options)
    /\ result.log[2].c = "ResponseObject"
    /\ result.log[3].c = "String"
    /\ DOMAIN result.v.m = {S_x}

----------------------------------------------------------------------------
(* C25: each addMessage call launches exactly one log delivery, carrying    *)
(* the call's messages under the uppercased severity; deliveries complete   *)
(* in any order, a delivery that fails or has not run leaves the buckets as *)
(* the calls made them, there are never more deliveries than addMessage     *)
(* calls, and under fair scheduling every launched delivery happens.        *)

AddCalls == {i \in 1..Len(calls) : calls[i].op = "add"}

(* The line that the call's goroutine carries *)
LineOf(call) == [prefix |-> ToUpper(call.severity) \o <<":">>, messages |-> call.messages]

Launched == pending \o [i \in 1..Len(printed) |->
                           [prefix |-> printed[i].prefix, messages |-> printed[i].messages]]

Times(lines, line) == Cardinality({i \in 1..Len(lines) : lines[i] = line})

C25_Launches ==
    pc = "delivery" =>
        /\ Len(pending) + Len(printed) = Cardinality(AddCalls)
        /\ Len(printed) <= Cardinality(AddCalls)
        /\ \A i \in AddCalls :
              Times(Launched, LineOf(calls[i]))
                  = Cardinality({j \in AddCalls : LineOf(calls[j]) = LineOf(calls[i])})
        /\ Errors(mm) = TextsAdded(calls, Len(calls), S_err)
        /\ Warnings(mm) = TextsAdded(calls, Len(calls), S_warn)
        /\ Infos(mm) = TextsAdded(calls, Len(calls), S_info)

C25_LogDelivery ==
    /\ []C25_Launches
    /\ \A n \in 1..MaxLaunches :
          (pc = "delivery" /\ Cardinality(AddCalls) >= n) ~> (Len(printed) >= n)

(* Two deliveries made in the opposite order of their calls, one refused *)
C25_Witness ==
    /\ pc = "delivery"
    /\ Len(calls) = 2
    /\ AddCalls = {1, 2}
    /\ LineOf(calls[1]) # LineOf(calls[2])
    /\ Len(printed) = 2
    /\ printed[1] = LineOf(calls[2])
    /\ "failed" \in DOMAIN printed[2]
    /\ Errors(mm) \o Warnings(mm) \o Infos(mm) # <<>>

----------------------------------------------------------------------------
(* C26: addMessage is not safe for concurrent use. While one goroutine owns *)
(* the map (every call so far was made by it) each bucket holds the texts   *)
(* of all its finished calls, in call order; with two goroutines a bucket   *)
(* holds texts of the calls made on it, in call order, never more than were *)
(* made, and may have lost some: there is an interleaving after which two   *)
(* finished calls for one severity leave a single message.                  *)

Owners == {calls[i].by : i \in 1..Len(calls)}

InFlight == Cardinality({t \in Threads : callers[t].at = "assign"})

RECURSIVE IsSubsequence(_, _)

IsSubsequence(part, whole) ==
    IF part = <<>> THEN TRUE
    ELSE IF whole = <<>> THEN FALSE
    ELSE IF Head(part) = Head(whole)
         THEN IsSubsequence(Tail(part), Tail(whole))
         ELSE IsSubsequence(part, Tail(whole))

C26_LostUpdate ==
    (pc = "shared" /\ ~Fatal) =>
        \A severity \in Severities :
            /\ Cardinality(Owners) <= 1 =>
                  mm[severity] = TextsAdded(calls, Len(calls) - InFlight, severity)
            /\ IsSubsequence(mm[severity], TextsAdded(calls, Len(calls), severity))
            /\ (InFlight = 0 /\ TextsAdded(calls, Len(calls), severity) # <<>>) =>
                  mm[severity] # <<>>

(* Both goroutines added an error and returned; one error is in the bucket *)
C26_Witness ==
    /\ pc = "shared"
    /\ ~Fatal
    /\ InFlight = 0
    /\ Len(calls) = 2
    /\ calls[1].by # calls[2].by
    /\ calls[1].severity = S_err
    /\ calls[2].severity = S_err
    /\ Len(Errors(mm)) = 1

----------------------------------------------------------------------------
(* C27: the location and the related links in the envelope's meta section   *)
(* are prefixed by the rule and with the domain string that the strings of  *)
(* the body are prefixed with: a value that begins with "/" carries the     *)
(* domain that a body string beginning with "/" carries (none when the      *)
(* full-domain flag is unset), a value that does not begin with "/" is left *)
(* as it is.                                                                *)

LocatedCase ==
    /\ Answered("Respond")
    /\ req.status = StatusOK
    /\ HasCap(req.data, "Locationer")

S_path == <<"p","a","t","h">>

(* What the body's rule makes of a value, the domain being the one that     *)
(* the rooted path of the page body was given                               *)
AsInBody(str) == PrependDomain(outcome.domain, str)

C27_SameDomainRule ==
    LocatedCase =>
        /\ req.data.t = <<"P","a","g","e">> =>
              Envelope.m[S_response].m[S_path] = StringVal(AsInBody(PagePath))
        /\ MetaOf(Envelope)[S_location] = StringVal(AsInBody(Caps(req.data)["Locationer"]))
        /\ HasCap(req.data, "RelatedLinker") =>
              \A rel \in DOMAIN Caps(req.data)["RelatedLinker"] \ {S_location} :
                  MetaOf(Envelope)[S_links].m[rel]
                      = StringVal(AsInBody(Caps(req.data)["RelatedLinker"][rel]))

----------------------------------------------------------------------------
(* C28: for a 200 response whose value offers related links R and has       *)
(* location L, the links that parseLinks recovers from the Link header that *)
(* Respond wrote are {"location": L} together with rel -> domain + url for  *)
(* every relation of R; a relation of R that is itself named "location"     *)
(* does not replace the computed location link.                             *)

LinkedCase ==
    /\ LocatedCase
    /\ HasCap(req.data, "RelatedLinker")

C28_LinkRoundTrip ==
    LinkedCase =>
        LET related == Caps(req.data)["RelatedLinker"]
            locationLink == RequestDomain(req.tls) \o Caps(req.data)["Locationer"]
            links == parseLinks(HeaderGet(outcome.header, "Link"))
        IN  /\ DOMAIN links = {S_location} \cup DOMAIN related
            /\ links[S_location] = locationLink
            /\ \A rel \in DOMAIN related \ {S_location} :
                  links[rel] = RequestDomain(req.tls) \o related[rel]
            /\ MetaOf(Envelope)[S_links] = StringMap(links)

====
